---- MODULE Spec2Model ----
(***************************************************************************)
(* home-sentinel: the event-stabilisation and correlation engine.          *)
(*                                                                         *)
(*   code/main.py             recognize_objects_and_faces: per-frame box   *)
(*                            loop, identity handoff, debounce, diff       *)
(*   code/presence_tracker.py PresenceTracker: door/face correlation       *)
(*   code/audio_detector.py   AudioDetector._process_chunk: sound gate;    *)
(*                            the audio thread, start and stop             *)
(*   code/camera.py           LatestFrameStream: reader thread, get_latest *)
(*   code/main.py             opening and polling the stream, reconnects;  *)
(*                            face matching with the face cache            *)
(*                                                                         *)
(* Labels are modelled as tuples: <<"person">> is the YOLO label "person"  *)
(* and <<"person", "Alice">> is the formatted label "person(Alice)"; the   *)
(* text before the first "(" is the first component.                       *)
(***************************************************************************)
EXTENDS Integers, Sequences, FiniteSets, TLC

(***************************************************************************)
(* Configuration (config.py reads these from the environment; the model    *)
(* runs them at small values).                                             *)
(***************************************************************************)
MIN_STABLE == 2
MAX_MISSING == 2
MIN_STABLE_OTHER == 3
MAX_MISSING_OTHER == 1
MaxBoxes == 2
PRESENCE_TIME_WINDOW == 1
MaxChunks == 3
STREAM_STALE_SEC == 1
STREAM_RECONNECT_ATTEMPTS == 2
MaxShots == 2
MaxIngest == 2
FACE_CACHE_VALIDITY_FRAMES == 2
CacheSweepEvery == 3
MaxFrame == 4
MQTT_EVENT_COOLDOWN == 2
MaxBridgeFrames == 10

ReconnectTries == 3
STREAM_RECONNECT_DELAY == 2000
FACE_SIM_THRESHOLD == 55
MIN_SIM_DIFF == 8

min_interval_sec == 5
ReconnectDelayStart == 2
ReconnectDelayCap == 60
DOOR_SOUNDS == {"door", "knock", "slam"}

IMPORTANT_OBJECTS == {"person", "dog", "cat"}

Names == {"Alice"}
YoloLabels == {"person", "chair"}

PERSON == <<"person">>
NamedLabel(nm) == <<"person", nm>>
AllLabels == {<<y>> : y \in YoloLabels} \cup {NamedLabel(nm) : nm \in Names}

\* Classifier labels (YAMNet display names) and names passed to the tracker.
Sounds == {"Door", "Speech"}
FaceNames == {"Alice", "Bob"}
None == "None"

\* str.lower on the labels above.
Lower(s) == CASE s = "Door" -> "door" [] s = "Speech" -> "speech" [] OTHER -> s

\* time.time() is far from 0.0, the initial _last_event_ts: the clock starts
\* more than min_interval_sec after it.
StartTime == min_interval_sec + 1
PresenceHorizon == 2 * PRESENCE_TIME_WINDOW + 2
SoundHorizon == min_interval_sec + 1

Min(a, b) == IF a <= b THEN a ELSE b
Max(a, b) == IF a >= b THEN a ELSE b

\* One detection box that passed the class and confidence filters: its YOLO
\* label and the names recognised among the faces of its crop (empty for a
\* non-person box, an empty gallery, a crop without faces or no accepted match).
Boxes == [label : {"chair"}, names : {{}}] \cup [label : {"person"}, names : SUBSET Names]
Frames == UNION {[1..n -> Boxes] : n \in 0..MaxBoxes}

VARIABLES
    tracked,        \* dict label -> {"last", "stable"}
    last_reported,  \* stable set reported by the last log
    current,        \* stable set computed by the last tick
    seen,           \* the frame's seen set at debounce time
    added,          \* labels logged as appeared by the last tick
    removed,        \* labels logged as gone by the last tick
    watched,        \* history: the label whose history is kept (any label)
    personSeen,     \* history: ticks on which "person" was seen since its state was created
    seenSince,      \* history: the same for the watched label
    seenCredit,     \* history: the same, a handoff passing on the count of "person"
    seenRun,        \* history: consecutive ticks on which the watched label was seen
    absentRun,      \* history: consecutive ticks on which the watched label was absent
    forgotten,      \* history: the debounce block has removed the watched label
                    \*   ("no", "yes"; "off" when this history is not kept)
    recorded        \* history: the names passed to stats.record_person_seen on the
                    \*   last tick (NotKept when this history is not kept)

VARIABLES
    clock,              \* time.time()
    last_door_event,    \* PresenceTracker._last_door_event
    last_face_events,   \* PresenceTracker._last_face_events, in insertion order
    door_pc,            \* thread calling on_door_sound: "idle", "call", "lock"
    door_arg,           \*   its argument sound
    door_now,           \*   its local now
    face_pc,            \* thread calling on_face_recognized: "idle", "lock"
    face_arg,           \*   its argument name
    face_now,           \*   its local now
    cleanup_pc,         \* thread calling cleanup_stale: "idle", "lock"
    cleanup_now,        \*   its local now
    last_call,          \* history: what the last on_door_sound / on_face_recognized did
    callbacks           \* the callbacks given to set_callbacks: "reliable" or "may_raise"

VARIABLES
    enabled,              \* AudioDetector._enabled
    last_event_ts,        \* AudioDetector._last_event_ts
    last_detected_sound,  \* AudioDetector._last_detected_sound
    tracker_present,      \* get_tracker() is not None
    detected_sound,       \* result of the last _classify_with_yamnet
    chunks,               \* history: number of classified chunks
    sound_log,            \* history: the emitted sounds with their times
    gate_now              \* history: now of the last call that reached the gate

VARIABLES
    cam_up,                \* the video source can be opened and delivers frames
    cam_seq,               \* history: number of frames the source has delivered
    stream,                \* main loop's stream: None or "open" (a LatestFrameStream)
    slot,                  \* LatestFrameStream._frame, _frame_id, _last_ok_ts
    reader_pc,             \* reader thread _run: "read", "store", "sleep"
    reader_tmp,            \*   its local frame and now
    last_read,             \* history: the tuple of the last successful read that was stored
    main_pc,               \* main loop: "startup", "startup_retry", "loop", "reconnect", "raised"
    attempt,               \*   the reconnect loop's attempt
    no_frame_count,        \*   no_frame_count
    last_stream_frame_id,  \*   last_stream_frame_id
    polled,                \*   the tuple returned by the last stream.get_latest()
    processed,             \* history: the frames detection ran on, in order
    slept,                 \* history: the time.sleep calls of the main loop's last step, in ms
    main_step              \* history: flips with every step of the main loop

streamVars == <<cam_up, cam_seq, stream, slot, reader_pc, reader_tmp, last_read, main_pc,
                attempt, no_frame_count, last_stream_frame_id, polled, processed,
                slept, main_step>>
VARIABLES
    stop_flag,     \* AudioDetector._stop
    proc,          \* AudioDetector.proc: None or "Popen"
    ffmpeg,        \* the ffmpeg process: "none", "running", "exited", "killed"
    audio_pc,      \* audio thread: "idle", "start_ffmpeg", "wait", "loop", "read", "done"
    stop_pc,       \* thread calling stop(): "idle", "kill", "returned"
    ingested,      \* history: chunks passed to _process_chunk that returned
    sink_failure   \* history: the sink that failed in the last _process_chunk, or None

audioVars == <<stop_flag, proc, ffmpeg, audio_pc, stop_pc, ingested, sink_failure>>
VARIABLES
    frame,         \* main loop's frame counter
    face_cache,    \* face_cache: face_hash -> (frame, name, sim)
    last_result,   \* the name added to recognized_names for the last face, or None
    last_full,     \* history: the name the full comparison gives for the last face, or None
    probe,         \* history: the first face that was matched
    probe_result,  \* history: the result of its first match
    last_is_probe, \* history: the last face matched is the probe
    gallery,       \* names: the identities of the gallery, loaded at startup
    follow_probe,  \* history: which history is kept, the probe's or the last face's
    last_face,     \* history: the last face matched
    last_hit,      \* history: the cache answered for the last face
    thr_base,      \* adaptive_threshold: its argument base_threshold, in hundredths
    thr_size,      \* adaptive_threshold: its argument face_size, in pixels
    thr_result     \* adaptive_threshold: the value returned, or NoThr before the call

faceVars == <<frame, face_cache, last_result, last_full, probe, probe_result, last_is_probe,
              gallery, follow_probe, last_face, last_hit, thr_base, thr_size, thr_result>>
soundVars == <<enabled, last_event_ts, last_detected_sound, tracker_present,
               detected_sound, chunks, sound_log, gate_now>>
presenceVars == <<clock, last_door_event, last_face_events, door_pc, door_arg, door_now,
                  face_pc, face_arg, face_now, cleanup_pc, cleanup_now, last_call, callbacks>>
debounceVars == <<tracked, last_reported, current, seen, added, removed>>
historyVars == <<watched, personSeen, seenSince, seenCredit, seenRun, absentRun, forgotten,
                 recorded>>
extVars == <<streamVars, audioVars, faceVars>>
VARIABLES
    stop_event,    \* LatestFrameStream._stop
    cap,           \* LatestFrameStream._cap: "open" or "released"
    thread_pc,     \* reader thread _run: "test", "read", "store", "sleep", "done"
    thread_tmp,    \*   its local frame and now
    cap_frames,    \* history: number of frames the capture has returned
    latest,        \* LatestFrameStream._frame, _frame_id, _last_ok_ts
    close_pc,      \* close(): "idle", "join", "release", "returned"
    late           \* history: what the reader did after close() had returned

closeVars == <<stop_event, cap, thread_pc, thread_tmp, cap_frames, latest, close_pc, late>>
VARIABLES
    connected,     \* mqtt_client._connected
    last_events,   \* mqtt_client._last_events: event key -> time, 0 when absent
    send_pc,       \* per caller: "idle", or "called" between now = time.time() and the lock
    send_key,      \*   its event_key
    send_now,      \*   its now
    published      \* history: the publications, each with its key and its time

mqttVars == <<connected, last_events, send_pc, send_key, send_now, published>>
VARIABLES
    bridge_cap,        \* vision_bridge: cap, None or "open"
    bridge_pc,         \*   "startup", "startup_retry", "read", "process", "reopen", "raised", "crashed"
    reconnect_delay,   \*   reconnect_delay
    bridge_frame,      \*   frame
    bridge_slept       \* history: the time.sleep calls of the last step, in s

bridgeVars == <<bridge_cap, bridge_pc, reconnect_delay, bridge_frame, bridge_slept>>
sideVars == <<closeVars, mqttVars, bridgeVars>>
vars == <<debounceVars, historyVars, presenceVars, soundVars, extVars, sideVars>>

(***************************************************************************)
(* main.py: debounce parameters of a label.                                *)
(***************************************************************************)
base_of(label) == label[1]

get_debounce_params(label) ==
    IF base_of(label) \in IMPORTANT_OBJECTS
        THEN [max_missing |-> MAX_MISSING, min_stable |-> MIN_STABLE]
        ELSE [max_missing |-> MAX_MISSING_OTHER, min_stable |-> MIN_STABLE_OTHER]

(***************************************************************************)
(* main.py: the box loop of one frame.  Each box first marks its label as  *)
(* seen; a person box in which names were recognised then replaces the     *)
(* generic "person" of the seen set by the named labels and moves the      *)
(* debounce state of "person" onto them.                                   *)
(***************************************************************************)
\* Variant: the named label does not take over the state of "person".
TransplantEntryReset(tr, key, base_state) ==
    IF key \notin DOMAIN tr THEN [last |-> 0, stable |-> 1] ELSE tr[key]

TransplantEntry(tr, key, base_state) ==
    IF key \notin DOMAIN tr
        THEN [last |-> base_state.last, stable |-> base_state.stable]
        ELSE [last |-> Min(tr[key].last, base_state.last),
              stable |-> Max(tr[key].stable, base_state.stable)]

Handoff(tr, recognized_names) ==
    IF PERSON \in DOMAIN tr
        THEN LET base_state == tr[PERSON]
                 keys == {NamedLabel(nm) : nm \in recognized_names}
             IN [l \in (DOMAIN tr \ {PERSON}) \cup keys |->
                    IF l \in keys THEN TransplantEntry(tr, l, base_state) ELSE tr[l]]
        ELSE tr

ProcessBox(st, box) ==
    LET seen1 == st.seen \cup {<<box.label>>}
    IN IF box.label # "person" \/ box.names = {}
          THEN [seen |-> seen1, tracked |-> st.tracked]
          ELSE [seen |-> (seen1 \ {PERSON}) \cup {NamedLabel(nm) : nm \in box.names},
                tracked |-> Handoff(st.tracked, box.names)]

RECURSIVE ProcessBoxes(_, _)
ProcessBoxes(st, boxes) ==
    IF boxes = <<>> THEN st
    ELSE ProcessBoxes(ProcessBox(st, Head(boxes)), Tail(boxes))

(***************************************************************************)
(* main.py: the debounce block.                                            *)
(***************************************************************************)
\* Variant: the stable score decays from the first absent tick on.
AbsentUpdateEager(v, lbl) ==
    [last |-> v.last + 1, stable |-> Max(0, v.stable - 1)]

\* Variant: the stable score never decays.
AbsentUpdateNoDecay(v, lbl) == [last |-> v.last + 1, stable |-> v.stable]

AbsentUpdate(v, lbl) ==
    LET p == get_debounce_params(lbl)
        last1 == v.last + 1
    IN [last |-> last1,
        stable |-> IF last1 > p.max_missing \div 2 THEN Max(0, v.stable - 1) ELSE v.stable]

\* Variant: a label is dropped one absent tick later.
DroppedLate(v, lbl) == v.last > get_debounce_params(lbl).max_missing + 1

Dropped(v, lbl) == v.last > get_debounce_params(lbl).max_missing

\* Variant: a seen label jumps to the ceiling at once.
SeenUpdateJump(v, lbl) ==
    [last |-> 0, stable |-> get_debounce_params(lbl).min_stable]

SeenUpdate(v, lbl) ==
    [last |-> 0, stable |-> Min(v.stable + 1, get_debounce_params(lbl).min_stable)]

NewEntry == [last |-> 0, stable |-> 1]

DebounceLoop(tr, seenSet) ==
    LET upd == [l \in DOMAIN tr |->
                   IF l \in seenSet THEN SeenUpdate(tr[l], l) ELSE AbsentUpdate(tr[l], l)]
        kept == {l \in DOMAIN tr : l \in seenSet \/ ~Dropped(upd[l], l)}
    IN [l \in kept |-> upd[l]]

CreateMissing(tr, seenSet) ==
    [l \in DOMAIN tr \cup seenSet |-> IF l \in DOMAIN tr THEN tr[l] ELSE NewEntry]

StableSet(tr) ==
    {l \in DOMAIN tr : tr[l].stable >= get_debounce_params(l).min_stable}

\* Variant: last_reported is refreshed only when something appeared.
ReportOnAdded(cur, reported) ==
    IF cur # reported
        THEN [added |-> cur \ reported, removed |-> reported \ cur,
              last_reported |-> IF cur \ reported # {} THEN cur ELSE reported]
        ELSE [added |-> {}, removed |-> {}, last_reported |-> reported]

\* The diff against the previously reported set and the new last_reported.
Report(cur, reported) ==
    IF cur # reported
        THEN [added |-> cur \ reported, removed |-> reported \ cur, last_reported |-> cur]
        ELSE [added |-> {}, removed |-> {}, last_reported |-> reported]

(***************************************************************************)
(* History kept for the properties (not program state).                    *)
(***************************************************************************)
TickCap == Max(MIN_STABLE, MIN_STABLE_OTHER)
AbsentCap == Max(MAX_MISSING, MAX_MISSING_OTHER) + 1

\* The names that receive the state of "person" in a frame: those of the first
\* box with recognised names, when "person" is tracked as the frame starts.
RECURSIVE FirstRecognized(_)
FirstRecognized(boxes) ==
    IF boxes = <<>> THEN {}
    ELSE IF Head(boxes).names # {} THEN Head(boxes).names
    ELSE FirstRecognized(Tail(boxes))

HandoffKeys(tr, boxes) ==
    IF PERSON \in DOMAIN tr THEN {NamedLabel(nm) : nm \in FirstRecognized(boxes)} ELSE {}

\* Seen-tick count of label l after a tick on boxes, from its count and the
\* count inherited from "person" if a handoff gives l the state of "person".
CountSeen(l, count, inherited, boxes, newTracked, newSeen) ==
    LET keys == HandoffKeys(tracked, boxes)
        c1 == IF keys # {} /\ l = PERSON THEN 0
              ELSE IF l \in keys /\ l \in DOMAIN tracked THEN Max(count, inherited)
              ELSE IF l \in keys THEN inherited
              ELSE count
    IN IF l \notin DOMAIN newTracked THEN 0
       ELSE IF l \in newSeen THEN Min(c1 + 1, TickCap)
       ELSE c1

\* The names passed to stats.record_person_seen on a frame: those of its
\* recognised names that a full comparison accepted (a name answered by the
\* face cache is not recorded).
NotKept == {"-"}
RecognizedIn(boxes) == UNION {boxes[i].names : i \in DOMAIN boxes}
Recordings(boxes) ==
    IF recorded = NotKept THEN {NotKept} ELSE SUBSET RecognizedIn(boxes)

(***************************************************************************)
(* One iteration of the main loop on a new frame.                          *)
(***************************************************************************)
Tick(boxes) ==
    LET st == ProcessBoxes([seen |-> {}, tracked |-> tracked], boxes)
        tr == CreateMissing(DebounceLoop(st.tracked, st.seen), st.seen)
        cur == StableSet(tr)
        rep == Report(cur, last_reported)
    IN /\ tracked' = tr
       /\ seen' = st.seen
       /\ current' = cur
       /\ added' = rep.added
       /\ removed' = rep.removed
       /\ last_reported' = rep.last_reported
       /\ watched' = watched
       /\ personSeen' = CountSeen(PERSON, personSeen, 0, boxes, tr, st.seen)
       /\ seenSince' = CountSeen(watched, seenSince, 0, boxes, tr, st.seen)
       /\ seenCredit' = CountSeen(watched, seenCredit, personSeen, boxes, tr, st.seen)
       /\ seenRun' = IF watched \in st.seen THEN Min(seenRun + 1, TickCap) ELSE 0
       /\ absentRun' = IF watched \in st.seen THEN 0 ELSE Min(absentRun + 1, AbsentCap)
       /\ forgotten' = IF forgotten = "no" /\ watched \in DOMAIN st.tracked
                            /\ watched \notin DOMAIN tr
                          THEN "yes" ELSE forgotten
       /\ recorded' \in Recordings(boxes)

NewFrame == (\E boxes \in Frames : Tick(boxes)) /\ UNCHANGED <<presenceVars, soundVars, extVars, sideVars>>

\* Frames of person boxes only, over a gallery of two names.
PersonBoxes == [label : {"person"}, names : SUBSET FaceNames]
PersonFrames == UNION {[1..n -> PersonBoxes] : n \in 0..MaxBoxes}

NewPersonFrame ==
    (\E boxes \in PersonFrames : Tick(boxes)) /\ UNCHANGED <<presenceVars, soundVars, extVars, sideVars>>

\* Frames of a scene with one person: no box, or one person box with at most
\* one face recognised in it.
OnePersonFrames ==
    {<<>>} \cup {<<box>> : box \in {b \in PersonBoxes : Cardinality(b.names) <= 1}}

NewOnePersonFrame ==
    (\E boxes \in OnePersonFrames : Tick(boxes)) /\ UNCHANGED <<presenceVars, soundVars, extVars, sideVars>>

DebounceStart ==
    /\ tracked = <<>>
    /\ last_reported = {}
    /\ current = {}
    /\ seen = {}
    /\ added = {}
    /\ removed = {}
    /\ watched \in AllLabels
    /\ personSeen = 0
    /\ seenSince = 0
    /\ seenCredit = 0
    /\ seenRun = 0
    /\ absentRun = 0

DebounceInit == DebounceStart /\ forgotten = "off" /\ recorded = NotKept

\* The start with the history of the statistics records kept.
StatsInit ==
    /\ DebounceStart
    /\ watched = PERSON
    /\ forgotten = "off"
    /\ recorded = {}

\* The start with the history of removals kept for a named label.
AbsentInit ==
    /\ DebounceStart
    /\ watched \in {NamedLabel(nm) : nm \in Names}
    /\ forgotten = "no"
    /\ recorded = NotKept

(***************************************************************************)
(* presence_tracker.py: PresenceTracker.  Each method reads time.time()    *)
(* before it takes the lock; the locked section runs as one step.          *)
(***************************************************************************)
Event(ts, nm, snd) == [timestamp |-> ts, name |-> nm, sound |-> snd]

\* An empty event slot (None where the code holds an Optional[Event]).
NoEvent == [timestamp |-> 0, name |-> None, sound |-> None]

Emission(kind, nm, door, face) ==
    [kind |-> kind, name |-> nm, door_ts |-> door, face_ts |-> face]

RemoveAt(seq, i) == [j \in 1..(Len(seq) - 1) |-> IF j < i THEN seq[j] ELSE seq[j + 1]]

IndexOf(seq, nm) ==
    IF \E i \in 1..Len(seq) : seq[i].name = nm
        THEN CHOOSE i \in 1..Len(seq) : seq[i].name = nm
        ELSE 0

\* dict assignment: an existing key keeps its position, a new key goes last.
PutFace(faces, ev) ==
    LET i == IndexOf(faces, ev.name)
    IN IF i = 0 THEN Append(faces, ev) ELSE [faces EXCEPT ![i] = ev]

\* Variant: a door sound is matched against the pending door event.
OnDoorSoundMatchDoor(faces, door, now, sound) ==
    IF door # NoEvent /\ now - door.timestamp <= PRESENCE_TIME_WINDOW /\ faces # <<>>
        THEN [faces |-> Tail(faces), door |-> door,
              emits |-> <<Emission("left", faces[1].name, now, faces[1].timestamp)>>]
    ELSE IF door # NoEvent /\ now - door.timestamp <= PRESENCE_TIME_WINDOW
        THEN [faces |-> faces, door |-> NoEvent,
              emits |-> <<Emission("left", None, now, door.timestamp)>>]
    ELSE [faces |-> faces, door |-> Event(now, None, sound), emits |-> <<>>]

\* Variant: a door sound emits left for every recent pending face.
OnDoorSoundAllRecent(faces, door, now, sound) ==
    LET recent == SelectSeq(faces, LAMBDA ev : now - ev.timestamp <= PRESENCE_TIME_WINDOW)
    IN IF recent # <<>>
          THEN [faces |-> SelectSeq(faces, LAMBDA ev :
                              ~(now - ev.timestamp <= PRESENCE_TIME_WINDOW)),
                door |-> door,
                emits |-> [i \in 1..Len(recent) |->
                              Emission("left", recent[i].name, now, recent[i].timestamp)]]
          ELSE [faces |-> faces, door |-> Event(now, None, sound), emits |-> <<>>]

\* Variant: a door sound is stored without looking at the pending faces.
OnDoorSoundStoreOnly(faces, door, now, sound) ==
    [faces |-> faces, door |-> Event(now, None, sound), emits |-> <<>>]

\* The locked section of on_door_sound.
OnDoorSoundLocked(faces, door, now, sound) ==
    LET recent == {i \in 1..Len(faces) :
                      now - faces[i].timestamp <= PRESENCE_TIME_WINDOW}
    IN IF recent # {}
          THEN LET i == CHOOSE k \in recent : \A m \in recent : k <= m
               IN [faces |-> RemoveAt(faces, i), door |-> door,
                   emits |-> <<Emission("left", faces[i].name, now, faces[i].timestamp)>>]
          ELSE [faces |-> faces, door |-> Event(now, None, sound), emits |-> <<>>]

\* Variant: the matched door event is not cleared.
OnFaceRecognizedKeepDoor(faces, door, now, nm) ==
    IF door # NoEvent /\ now - door.timestamp <= PRESENCE_TIME_WINDOW
        THEN [faces |-> faces, door |-> door,
              emits |-> <<Emission("arrived", nm, door.timestamp, now)>>]
        ELSE [faces |-> PutFace(faces, Event(now, nm, None)), door |-> door, emits |-> <<>>]

\* Variant: the pending door event is looked at before the lock is taken, while
\* none is stored yet, so the call only stores its face event.
OnFaceRecognizedUnlockedCheck(faces, door, now, nm) ==
    [faces |-> PutFace(faces, Event(now, nm, None)), door |-> door, emits |-> <<>>]

\* The locked section of on_face_recognized.
OnFaceRecognizedLocked(faces, door, now, nm) ==
    IF door # NoEvent /\ now - door.timestamp <= PRESENCE_TIME_WINDOW
        THEN [faces |-> faces, door |-> NoEvent,
              emits |-> <<Emission("arrived", nm, door.timestamp, now)>>]
        ELSE [faces |-> PutFace(faces, Event(now, nm, None)), door |-> door, emits |-> <<>>]

\* Variant: events older than one window are already removed.
CleanupStaleOneWindow(faces, door, now) ==
    [faces |-> SelectSeq(faces, LAMBDA ev : ~(now - ev.timestamp > PRESENCE_TIME_WINDOW)),
     door |-> IF door # NoEvent /\ now - door.timestamp > PRESENCE_TIME_WINDOW
                 THEN NoEvent ELSE door]

\* The locked section of cleanup_stale.
CleanupStaleLocked(faces, door, now) ==
    LET stale_threshold == PRESENCE_TIME_WINDOW * 2
    IN [faces |-> SelectSeq(faces, LAMBDA ev : ~(now - ev.timestamp > stale_threshold)),
        door |-> IF door # NoEvent /\ now - door.timestamp > stale_threshold
                    THEN NoEvent ELSE door]

\* Time passes.
AdvanceTo(limit) ==
    /\ clock < limit
    /\ clock' = clock + 1
    /\ UNCHANGED <<last_door_event, last_face_events, door_pc, door_arg, door_now,
                   face_pc, face_arg, face_now, cleanup_pc, cleanup_now, last_call, callbacks>>
    /\ UNCHANGED <<debounceVars, historyVars, soundVars, extVars, sideVars>>

Advance == AdvanceTo(StartTime + PresenceHorizon)

\* A caller invokes tracker.on_door_sound(sound).
CallOnDoorSound(sound) ==
    /\ door_pc = "idle"
    /\ door_pc' = "call"
    /\ door_arg' = sound
    /\ UNCHANGED <<clock, last_door_event, last_face_events, door_now,
                   face_pc, face_arg, face_now, cleanup_pc, cleanup_now, last_call, callbacks>>
    /\ UNCHANGED <<debounceVars, historyVars, soundVars, extVars, sideVars>>

\* on_door_sound up to the lock: the door_sounds filter and now = time.time().
on_door_sound_enter ==
    /\ door_pc = "call"
    /\ IF Lower(door_arg) \notin DOOR_SOUNDS
          THEN door_pc' = "idle" /\ door_arg' = None /\ door_now' = 0
          ELSE door_pc' = "lock" /\ door_arg' = door_arg /\ door_now' = clock
    /\ UNCHANGED <<clock, last_door_event, last_face_events,
                   face_pc, face_arg, face_now, cleanup_pc, cleanup_now, last_call, callbacks>>
    /\ UNCHANGED <<debounceVars, historyVars, soundVars, extVars, sideVars>>

\* What a callback called by _emit_arrived / _emit_left may do: return (FALSE)
\* or raise (TRUE).
CallbackOutcomes == IF callbacks = "reliable" THEN {FALSE} ELSE BOOLEAN

\* _emit_left runs before the del and the return: when its callback raises,
\* the exception leaves the with block (which releases the lock) and the
\* method with the pending events as they were.
on_door_sound_locked ==
    /\ door_pc = "lock"
    /\ \E raised \in CallbackOutcomes :
          LET r == OnDoorSoundLocked(last_face_events, last_door_event, door_now, door_arg)
              failed == raised /\ r.emits # <<>>
          IN /\ last_face_events' = IF failed THEN last_face_events ELSE r.faces
             /\ last_door_event' = IF failed THEN last_door_event ELSE r.door
             /\ last_call' = [kind |-> "door", emits |-> r.emits,
                              displaced |-> IF r.emits = <<>> THEN last_door_event
                                            ELSE NoEvent]
    /\ door_pc' = "idle" /\ door_arg' = None /\ door_now' = 0
    /\ UNCHANGED <<clock, face_pc, face_arg, face_now, cleanup_pc, cleanup_now, callbacks>>
    /\ UNCHANGED <<debounceVars, historyVars, soundVars, extVars, sideVars>>

\* on_face_recognized up to the lock: now = time.time().
on_face_recognized_enter(nm) ==
    /\ face_pc = "idle"
    /\ face_pc' = "lock" /\ face_arg' = nm /\ face_now' = clock
    /\ UNCHANGED <<clock, last_door_event, last_face_events, door_pc, door_arg, door_now,
                   cleanup_pc, cleanup_now, last_call, callbacks>>
    /\ UNCHANGED <<debounceVars, historyVars, soundVars, extVars, sideVars>>

\* _emit_arrived runs before _last_door_event = None: a raising callback
\* leaves the door event pending.
on_face_recognized_locked ==
    /\ face_pc = "lock"
    /\ \E raised \in CallbackOutcomes :
          LET r == OnFaceRecognizedLocked(last_face_events, last_door_event, face_now,
                                          face_arg)
              i == IndexOf(last_face_events, face_arg)
              failed == raised /\ r.emits # <<>>
          IN /\ last_face_events' = IF failed THEN last_face_events ELSE r.faces
             /\ last_door_event' = IF failed THEN last_door_event ELSE r.door
             /\ last_call' = [kind |-> "face", emits |-> r.emits,
                              displaced |-> IF r.emits = <<>> /\ i # 0
                                               THEN last_face_events[i] ELSE NoEvent]
    /\ face_pc' = "idle" /\ face_arg' = None /\ face_now' = 0
    /\ UNCHANGED <<clock, door_pc, door_arg, door_now, cleanup_pc, cleanup_now, callbacks>>
    /\ UNCHANGED <<debounceVars, historyVars, soundVars, extVars, sideVars>>

cleanup_stale_enter ==
    /\ cleanup_pc = "idle"
    /\ cleanup_pc' = "lock" /\ cleanup_now' = clock
    /\ UNCHANGED <<clock, last_door_event, last_face_events, door_pc, door_arg, door_now,
                   face_pc, face_arg, face_now, last_call, callbacks>>
    /\ UNCHANGED <<debounceVars, historyVars, soundVars, extVars, sideVars>>

cleanup_stale_locked ==
    /\ cleanup_pc = "lock"
    /\ LET r == CleanupStaleLocked(last_face_events, last_door_event, cleanup_now)
       IN last_face_events' = r.faces /\ last_door_event' = r.door
    /\ cleanup_pc' = "idle" /\ cleanup_now' = 0
    /\ UNCHANGED <<clock, door_pc, door_arg, door_now, face_pc, face_arg, face_now, last_call, callbacks>>
    /\ UNCHANGED <<debounceVars, historyVars, soundVars, extVars, sideVars>>

PresenceStart ==
    /\ clock = StartTime
    /\ last_door_event = NoEvent
    /\ last_face_events = <<>>
    /\ door_pc = "idle" /\ door_arg = None /\ door_now = 0
    /\ face_pc = "idle" /\ face_arg = None /\ face_now = 0
    /\ cleanup_pc = "idle" /\ cleanup_now = 0
    /\ last_call = [kind |-> None, emits |-> <<>>, displaced |-> NoEvent]

PresenceInit == PresenceStart /\ callbacks = "reliable"

PresenceNext ==
    \/ Advance
    \/ \E sound \in Sounds : CallOnDoorSound(sound)
    \/ on_door_sound_enter
    \/ on_door_sound_locked
    \/ \E nm \in FaceNames : on_face_recognized_enter(nm)
    \/ on_face_recognized_locked
    \/ cleanup_stale_enter
    \/ cleanup_stale_locked

(***************************************************************************)
(* audio_detector.py: AudioDetector._process_chunk on a full window, from  *)
(* the classifier result to the call of tracker.on_door_sound (which the   *)
(* audio thread then runs through on_door_sound_enter / _locked).          *)
(***************************************************************************)
\* Variant: the two conditions of the gate are joined by "and".
GateOpenBoth(now, last_ts, last_sound, sound) ==
    (now - last_ts) > min_interval_sec /\ last_sound # sound

\* Variant: the gate lets every observation through.
GateOpenAlways(now, last_ts, last_sound, sound) == TRUE

GateOpen(now, last_ts, last_sound, sound) ==
    (now - last_ts) > min_interval_sec \/ last_sound # sound

ProcessChunk(sound) ==
    /\ door_pc = "idle"
    /\ chunks < MaxChunks
    /\ chunks' = chunks + 1
    /\ detected_sound' = sound
    /\ gate_now' = IF sound # None /\ enabled THEN clock ELSE gate_now
    /\ IF sound # None /\ enabled
             /\ GateOpen(clock, last_event_ts, last_detected_sound, sound)
          THEN /\ last_event_ts' = clock
               /\ last_detected_sound' = sound
               /\ sound_log' = Append(sound_log, [label |-> sound, ts |-> clock])
               /\ IF tracker_present
                     THEN door_pc' = "call" /\ door_arg' = sound
                     ELSE UNCHANGED <<door_pc, door_arg>>
          ELSE UNCHANGED <<last_event_ts, last_detected_sound, sound_log, door_pc, door_arg>>
    /\ UNCHANGED <<enabled, tracker_present>>
    /\ UNCHANGED <<clock, last_door_event, last_face_events, door_now,
                   face_pc, face_arg, face_now, cleanup_pc, cleanup_now, last_call, callbacks>>
    /\ UNCHANGED <<debounceVars, historyVars, extVars, sideVars>>

enable ==
    /\ enabled' = TRUE
    /\ UNCHANGED <<last_event_ts, last_detected_sound, tracker_present,
                   detected_sound, chunks, sound_log, gate_now>>
    /\ UNCHANGED <<debounceVars, historyVars, presenceVars, extVars, sideVars>>

AdvanceSound == AdvanceTo(StartTime + SoundHorizon)

SoundInit ==
    /\ enabled = FALSE
    /\ last_event_ts = 0
    /\ last_detected_sound = None
    /\ tracker_present \in BOOLEAN
    /\ detected_sound = None
    /\ chunks = 0
    /\ sound_log = <<>>
    /\ gate_now = 0

SoundNext ==
    \/ AdvanceSound
    \/ enable
    \/ \E sound \in Sounds \cup {None} : ProcessChunk(sound)
    \/ on_door_sound_enter
    \/ on_door_sound_locked

(***************************************************************************)
(* camera.py: LatestFrameStream.  A reader thread pulls frames from the    *)
(* capture and keeps the latest one; get_latest returns the slot under the *)
(* same lock.  Frames are numbered by the source in delivery order.        *)
(***************************************************************************)
NoFrame == 0
EmptySlot == [frame |-> NoFrame, frame_id |-> 0, last_ok_ts |-> 0]
StreamHorizon == STREAM_STALE_SEC + 2

\* Variant: the reader replaces the frame and its id but not the timestamp.
StoreSlotKeepTs(s, img, now) ==
    [frame |-> img, frame_id |-> s.frame_id + 1, last_ok_ts |-> s.last_ok_ts]

\* The locked section of _run after a successful read.
StoreSlot(s, img, now) ==
    [frame |-> img, frame_id |-> s.frame_id + 1, last_ok_ts |-> now]

\* The locked section of get_latest.
get_latest(s) == [frame |-> s.frame, frame_id |-> s.frame_id, last_ok_ts |-> s.last_ok_ts]

\* The source fails or recovers.
cam_toggle ==
    /\ cam_up' = ~cam_up
    /\ UNCHANGED <<cam_seq, stream, slot, reader_pc, reader_tmp, last_read, main_pc,
                   attempt, no_frame_count, last_stream_frame_id, polled, processed>>
    /\ UNCHANGED <<slept, main_step>>
    /\ UNCHANGED <<debounceVars, historyVars, presenceVars, soundVars, audioVars, faceVars, sideVars>>

\* _run: self._cap.read() and now = time.time(); a read can fail at any time
\* and fails while the source is down.
run_read ==
    /\ stream = "open"
    /\ reader_pc = "read"
    /\ \E ret \in {cam_up /\ cam_seq < MaxShots, FALSE} :
          IF ret
             THEN /\ cam_seq' = cam_seq + 1
                  /\ reader_tmp' = [frame |-> cam_seq + 1, now |-> clock]
                  /\ reader_pc' = "store"
             ELSE /\ reader_pc' = "sleep"
                  /\ UNCHANGED <<cam_seq, reader_tmp>>
    /\ UNCHANGED <<cam_up, stream, slot, last_read, main_pc,
                   attempt, no_frame_count, last_stream_frame_id, polled, processed>>
    /\ UNCHANGED <<slept, main_step>>
    /\ UNCHANGED <<debounceVars, historyVars, presenceVars, soundVars, audioVars, faceVars, sideVars>>

\* _run: with self._lock, the three assignments.
run_store ==
    /\ stream = "open"
    /\ reader_pc = "store"
    /\ slot' = StoreSlot(slot, reader_tmp.frame, reader_tmp.now)
    /\ last_read' = [frame |-> reader_tmp.frame, frame_id |-> slot.frame_id + 1,
                     last_ok_ts |-> reader_tmp.now]
    /\ reader_pc' = "read"
    /\ UNCHANGED <<cam_up, cam_seq, stream, reader_tmp, main_pc,
                   attempt, no_frame_count, last_stream_frame_id, polled, processed>>
    /\ UNCHANGED <<slept, main_step>>
    /\ UNCHANGED <<debounceVars, historyVars, presenceVars, soundVars, audioVars, faceVars, sideVars>>

\* _run: time.sleep(0.05) after a failed read.
run_sleep ==
    /\ stream = "open"
    /\ reader_pc = "sleep"
    /\ reader_pc' = "read"
    /\ UNCHANGED <<cam_up, cam_seq, stream, slot, reader_tmp, last_read, main_pc,
                   attempt, no_frame_count, last_stream_frame_id, polled, processed>>
    /\ UNCHANGED <<slept, main_step>>
    /\ UNCHANGED <<debounceVars, historyVars, presenceVars, soundVars, audioVars, faceVars, sideVars>>

(***************************************************************************)
(* main.py: opening the stream at startup and the frame polling of the     *)
(* main loop.  open_camera_stream returns None while the source is down,   *)
(* else a new LatestFrameStream with an empty slot and a running reader.   *)
(***************************************************************************)
\* stream = open_camera_stream(): the variables of the new object.
OpenStream(ok) ==
    /\ stream' = IF ok THEN "open" ELSE None
    /\ slot' = EmptySlot
    /\ last_read' = EmptySlot
    /\ reader_pc' = "read"
    /\ reader_tmp' = [frame |-> NoFrame, now |-> 0]

\* stream = open_camera_stream() at startup.
startup_open ==
    /\ main_pc = "startup"
    /\ OpenStream(cam_up)
    /\ main_pc' = IF cam_up THEN "loop" ELSE "startup_retry"
    /\ slept' = <<>>
    /\ main_step' = ~main_step
    /\ UNCHANGED <<cam_up, cam_seq, attempt, no_frame_count, last_stream_frame_id,
                   polled, processed>>
    /\ UNCHANGED <<debounceVars, historyVars, presenceVars, soundVars, audioVars, faceVars, sideVars>>

\* time.sleep(5), the second open_camera_stream() and the raise.
startup_retry ==
    /\ main_pc = "startup_retry"
    /\ OpenStream(cam_up)
    /\ main_pc' = IF cam_up THEN "loop" ELSE "raised"
    /\ slept' = <<5000>>
    /\ main_step' = ~main_step
    /\ UNCHANGED <<cam_up, cam_seq, attempt, no_frame_count, last_stream_frame_id,
                   polled, processed>>
    /\ UNCHANGED <<debounceVars, historyVars, presenceVars, soundVars, audioVars, faceVars, sideVars>>

\* The loop's branch "if stream is None".
loop_reopen ==
    /\ main_pc = "loop"
    /\ stream = None
    /\ OpenStream(cam_up)
    /\ slept' = <<5000>>
    /\ main_step' = ~main_step
    /\ UNCHANGED <<cam_up, cam_seq, main_pc, attempt, no_frame_count,
                   last_stream_frame_id, polled, processed>>
    /\ UNCHANGED <<debounceVars, historyVars, presenceVars, soundVars, audioVars, faceVars, sideVars>>

\* Variant: a poll without a new frame always counts.
IsStaleAlways(last_ok_ts, now) == TRUE

\* The test "the stream is stuck" of a poll without a new frame.
IsStale(last_ok_ts, now) == last_ok_ts = 0 \/ now - last_ok_ts > STREAM_STALE_SEC

\* One iteration of the loop on an open stream, up to the detection on a new
\* frame or to stream.close() before the reconnect attempts.
poll ==
    /\ main_pc = "loop"
    /\ stream = "open"
    /\ LET got == get_latest(slot)
           now == clock
       IN /\ polled' = got
          /\ IF got.frame = NoFrame \/ got.frame_id = last_stream_frame_id
                THEN /\ UNCHANGED <<last_stream_frame_id, processed>>
                     /\ IF IsStale(got.last_ok_ts, now)
                           THEN /\ no_frame_count' = no_frame_count + 1
                                /\ IF no_frame_count + 1 >= STREAM_RECONNECT_ATTEMPTS
                                      THEN /\ OpenStream(FALSE)
                                           /\ main_pc' = "reconnect"
                                           /\ attempt' = 0
                                           /\ slept' = <<STREAM_RECONNECT_DELAY>>
                                      ELSE /\ slept' = <<50>>
                                           /\ UNCHANGED <<stream, slot, last_read, reader_pc,
                                                          reader_tmp, main_pc, attempt>>
                           ELSE /\ slept' = <<50>>
                                /\ UNCHANGED <<no_frame_count, stream, slot, last_read,
                                               reader_pc, reader_tmp, main_pc, attempt>>
                ELSE /\ last_stream_frame_id' = got.frame_id
                     /\ no_frame_count' = 0
                     /\ processed' = Append(processed, got.frame)
                     /\ slept' = <<>>
                     /\ UNCHANGED <<stream, slot, last_read, reader_pc, reader_tmp,
                                    main_pc, attempt>>
    /\ main_step' = ~main_step
    /\ UNCHANGED <<cam_up, cam_seq>>
    /\ UNCHANGED <<debounceVars, historyVars, presenceVars, soundVars, audioVars, faceVars, sideVars>>

\* Variant: the same pause after every failed attempt.
ReconnectSleepsFixed(k) == <<5000>>

\* The sleeps after the failed attempt number k (from 0): 5 s x (k + 1), and
\* after the last attempt the 10 s of the else branch.
ReconnectSleeps(k) ==
    IF k + 1 < ReconnectTries THEN <<5000 * (k + 1)>> ELSE <<5000 * (k + 1), 10000>>

\* One pass of "for attempt in range(3)" and, after the last, its else branch.
reconnect_attempt ==
    /\ main_pc = "reconnect"
    /\ OpenStream(cam_up)
    /\ IF cam_up
          THEN /\ no_frame_count' = 0
               /\ last_stream_frame_id' = -1
               /\ main_pc' = "loop"
               /\ attempt' = 0
               /\ slept' = <<>>
          ELSE IF attempt + 1 < ReconnectTries
          THEN /\ attempt' = attempt + 1
               /\ slept' = ReconnectSleeps(attempt)
               /\ UNCHANGED <<no_frame_count, last_stream_frame_id, main_pc>>
          ELSE /\ no_frame_count' = 0
               /\ main_pc' = "loop"
               /\ attempt' = 0
               /\ slept' = ReconnectSleeps(attempt)
               /\ UNCHANGED last_stream_frame_id
    /\ main_step' = ~main_step
    /\ UNCHANGED <<cam_up, cam_seq, polled, processed>>
    /\ UNCHANGED <<debounceVars, historyVars, presenceVars, soundVars, audioVars, faceVars, sideVars>>

AdvanceStream == AdvanceTo(StartTime + StreamHorizon)

StreamInit ==
    /\ cam_up \in BOOLEAN
    /\ cam_seq = 0
    /\ stream = None
    /\ slot = EmptySlot
    /\ reader_pc = "read"
    /\ reader_tmp = [frame |-> NoFrame, now |-> 0]
    /\ last_read = EmptySlot
    /\ main_pc = "startup"
    /\ attempt = 0
    /\ no_frame_count = 0
    /\ last_stream_frame_id = -1
    /\ polled = EmptySlot
    /\ processed = <<>>
    /\ slept = <<>>
    /\ main_step = FALSE

StreamNext ==
    \/ AdvanceStream
    \/ cam_toggle
    \/ run_read
    \/ run_store
    \/ run_sleep
    \/ startup_open
    \/ startup_retry
    \/ loop_reopen
    \/ poll
    \/ reconnect_attempt

(***************************************************************************)
(* audio_detector.py: the life of the audio thread.  start() spawns the    *)
(* thread running audio_loop, which starts ffmpeg and then reads and       *)
(* processes chunks until _stop, the exit of ffmpeg or an exception;       *)
(* stop() sets _stop and kills the process self.proc refers to.  What      *)
(* _process_chunk does with a classified sound is in ProcessChunk above;   *)
(* here only its outcome counts: it returns, or a sink call raises.        *)
(***************************************************************************)
\* The calls _process_chunk makes when it emits a sound, in order.
Sinks == <<"stats", "mqtt", "callback">>

\* stats.record_sound_detected catches every exception itself;
\* send_sound_detected and tracker.on_door_sound (which runs the arrived/left
\* callbacks) do not, and _process_chunk has no handler of its own.
Raises(sink) == sink \in {"mqtt", "callback"}

\* start(): the thread is created and begins audio_loop.
start ==
    /\ audio_pc = "idle"
    /\ audio_pc' = "start_ffmpeg"
    /\ UNCHANGED <<stop_flag, proc, ffmpeg, stop_pc, ingested, sink_failure>>
    /\ UNCHANGED <<debounceVars, historyVars, presenceVars, soundVars, streamVars, faceVars, sideVars>>

\* _start_ffmpeg: subprocess.Popen.  If it raises, proc is None and
\* audio_loop returns.
start_ffmpeg ==
    /\ audio_pc = "start_ffmpeg"
    /\ \E launched \in BOOLEAN :
          IF launched
             THEN proc' = "Popen" /\ ffmpeg' = "running" /\ audio_pc' = "wait"
             ELSE proc' = None /\ ffmpeg' = ffmpeg /\ audio_pc' = "done"
    /\ UNCHANGED <<stop_flag, stop_pc, ingested, sink_failure>>
    /\ UNCHANGED <<debounceVars, historyVars, presenceVars, soundVars, streamVars, faceVars, sideVars>>

\* _start_ffmpeg: time.sleep(2.0) and the logged poll; audio_loop goes on to
\* its loop as proc and proc.stdout are set.
start_ffmpeg_wait ==
    /\ audio_pc = "wait"
    /\ audio_pc' = "loop"
    /\ UNCHANGED <<stop_flag, proc, ffmpeg, stop_pc, ingested, sink_failure>>
    /\ UNCHANGED <<debounceVars, historyVars, presenceVars, soundVars, streamVars, faceVars, sideVars>>

\* audio_loop: "while not self._stop" and the poll of the process.
audio_loop_check ==
    /\ audio_pc = "loop"
    /\ audio_pc' = IF stop_flag THEN "done"
                   ELSE IF ffmpeg # "running" THEN "done"
                   ELSE "read"
    /\ UNCHANGED <<stop_flag, proc, ffmpeg, stop_pc, ingested, sink_failure>>
    /\ UNCHANGED <<debounceVars, historyVars, presenceVars, soundVars, streamVars, faceVars, sideVars>>

\* audio_loop: the read and _process_chunk.  The pipe of a process that is
\* gone reads empty; a chunk either emits a sound, calling the sinks, or not.
audio_loop_read ==
    /\ audio_pc = "read"
    /\ IF ffmpeg # "running"
          THEN /\ audio_pc' = "loop"
               /\ UNCHANGED <<ingested, sink_failure>>
          ELSE \E failing \in {None} \cup {Sinks[i] : i \in 1..Len(Sinks)} :
                  /\ sink_failure' = failing
                  /\ IF failing # None /\ Raises(failing)
                        THEN audio_pc' = "done" /\ ingested' = ingested
                        ELSE /\ audio_pc' = "loop"
                             /\ ingested' = Min(ingested + 1, MaxIngest)
    /\ UNCHANGED <<stop_flag, proc, ffmpeg, stop_pc>>
    /\ UNCHANGED <<debounceVars, historyVars, presenceVars, soundVars, streamVars, faceVars, sideVars>>

\* The ffmpeg process ends by itself (the source is gone).
ffmpeg_exit ==
    /\ ffmpeg = "running"
    /\ ffmpeg' = "exited"
    /\ UNCHANGED <<stop_flag, proc, audio_pc, stop_pc, ingested, sink_failure>>
    /\ UNCHANGED <<debounceVars, historyVars, presenceVars, soundVars, streamVars, faceVars, sideVars>>

\* stop(): self._stop = True.
stop_set ==
    /\ stop_pc = "idle"
    /\ stop_flag' = TRUE
    /\ stop_pc' = "kill"
    /\ UNCHANGED <<proc, ffmpeg, audio_pc, ingested, sink_failure>>
    /\ UNCHANGED <<debounceVars, historyVars, presenceVars, soundVars, streamVars, faceVars, sideVars>>

\* stop(): if self.proc: self.proc.kill().
stop_kill ==
    /\ stop_pc = "kill"
    /\ ffmpeg' = IF proc # None /\ ffmpeg = "running" THEN "killed" ELSE ffmpeg
    /\ stop_pc' = "returned"
    /\ UNCHANGED <<stop_flag, proc, audio_pc, ingested, sink_failure>>
    /\ UNCHANGED <<debounceVars, historyVars, presenceVars, soundVars, streamVars, faceVars, sideVars>>

AudioInit ==
    /\ stop_flag = FALSE
    /\ proc = None
    /\ ffmpeg = "none"
    /\ audio_pc = "idle"
    /\ stop_pc = "idle"
    /\ ingested = 0
    /\ sink_failure = None

AudioNext ==
    \/ start
    \/ start_ffmpeg
    \/ start_ffmpeg_wait
    \/ audio_loop_check
    \/ audio_loop_read
    \/ ffmpeg_exit
    \/ stop_set
    \/ stop_kill

(***************************************************************************)
(* main.py: recognition of one face of a person crop, with the face cache. *)
(* Similarities are in hundredths.  A face is given by the leading part of *)
(* its embedding (in tenths; the cache key is computed from it alone), the *)
(* similarity compute_face_similarity returns for each gallery person, and *)
(* the size of its person box.                                             *)
(***************************************************************************)
Gallery == <<"Alice", "Bob">>
Heads == {-4, 7, 12}
SimLevels == {40, 60, 66}
FaceSizes == {150, 250}
Galleries == {SubSeq(Gallery, 1, n) : n \in 0..Len(Gallery)}
FacesOf(g) == [head : Heads, sims : [1..Len(g) -> SimLevels], size : FaceSizes]
Faces == FacesOf(Gallery)
NoFace == [head |-> 0, sims |-> <<>>, size |-> 0]

\* int(): truncation toward zero of a value in tenths.
AsInt(x) == IF x >= 0 THEN x \div 10 ELSE -((-x) \div 10)

\* hash(tuple(face_emb[:10].astype(int))): equal tuples of truncated leading
\* components give equal keys.
face_hash(face) == AsInt(face.head)

\* utils.adaptive_threshold.
adaptive_threshold(face_size, base_threshold) ==
    IF face_size < 100 THEN Max(50, base_threshold - 3)
    ELSE IF face_size > 200 THEN Min(60, base_threshold + 2)
    ELSE base_threshold

\* sims.sort(reverse=True, key=similarity) is stable: of equal similarities
\* the person earlier in the gallery comes first.
BestIdx(sims) ==
    CHOOSE i \in DOMAIN sims :
        \A j \in DOMAIN sims : sims[i] > sims[j] \/ (sims[i] = sims[j] /\ i <= j)

\* Variant of SecondSim: the runner-up is never looked at.
SecondSimZero(sims) == 0

SecondSim(sims) ==
    LET rest == DOMAIN sims \ {BestIdx(sims)}
    IN IF rest = {} THEN 0
       ELSE sims[CHOOSE i \in rest : \A j \in rest : sims[i] >= sims[j]]

\* The full comparison of a face with the gallery and the acceptance rule.
FullMatch(face) ==
    LET best_sim == face.sims[BestIdx(face.sims)]
        best_name == gallery[BestIdx(face.sims)]
        diff == best_sim - SecondSim(face.sims)
        thr == adaptive_threshold(face.size, FACE_SIM_THRESHOLD)
        high == best_sim >= thr + 10
        good_diff == diff >= MIN_SIM_DIFF
    IN [name |-> IF best_sim >= thr /\ (good_diff \/ high) THEN best_name ELSE None,
        high |-> high,
        sim |-> best_sim]

\* Variant of CacheHit: an entry answers whatever its age.
CacheHitAnyAge(cache, key, fr) == key \in DOMAIN cache /\ cache[key].name # None

\* The cache lookup: a valid entry with a name answers for the face.
CacheHit(cache, key, fr) ==
    /\ key \in DOMAIN cache
    /\ fr - cache[key].frame < FACE_CACHE_VALIDITY_FRAMES
    /\ cache[key].name # None

\* The periodic sweep of the cache.
Sweep(cache, fr) ==
    IF fr % CacheSweepEvery = 0
        THEN [k \in {k \in DOMAIN cache : fr - cache[k].frame < FACE_CACHE_VALIDITY_FRAMES}
                 |-> cache[k]]
        ELSE cache

\* The body of "for face in faces" for one face: its name and the new cache.
MatchFace(cache, face, fr) ==
    LET key == face_hash(face)
        full == FullMatch(face)
    IN IF CacheHit(cache, key, fr)
          THEN [name |-> cache[key].name, cache |-> cache]
          ELSE [name |-> full.name,
                cache |-> IF full.name # None /\ full.high
                             THEN [k \in DOMAIN cache \cup {key} |->
                                      IF k = key
                                         THEN [frame |-> fr, name |-> full.name, sim |-> full.sim]
                                         ELSE cache[k]]
                             ELSE cache]

\* A new frame is taken: frame += 1.
next_frame ==
    /\ frame < MaxFrame
    /\ frame' = frame + 1
    /\ UNCHANGED <<face_cache, last_result, last_full, probe, probe_result, last_is_probe,
                   gallery, follow_probe, last_face, last_hit, thr_base, thr_size, thr_result>>
    /\ UNCHANGED <<debounceVars, historyVars, presenceVars, soundVars, streamVars, audioVars, sideVars>>

\* A person box of the current frame with one face in its crop.
match(face) ==
    /\ frame >= 1
    /\ Len(gallery) > 0
    /\ LET m == MatchFace(face_cache, face, frame)
       IN /\ face_cache' = Sweep(m.cache, frame)
          /\ last_result' = m.name
          /\ last_full' = FullMatch(face).name
          /\ IF follow_probe
                THEN /\ probe' = IF probe = NoFace THEN face ELSE probe
                     /\ probe_result' = IF probe = NoFace THEN m.name ELSE probe_result
                     /\ last_is_probe' = (probe = NoFace \/ probe = face)
                     /\ UNCHANGED <<last_face, last_hit>>
                ELSE /\ last_face' = face
                     /\ last_hit' = CacheHit(face_cache, face_hash(face), frame)
                     /\ UNCHANGED <<probe, probe_result, last_is_probe>>
    /\ UNCHANGED <<frame, gallery, follow_probe, thr_base, thr_size, thr_result>>
    /\ UNCHANGED <<debounceVars, historyVars, presenceVars, soundVars, streamVars, audioVars, sideVars>>

\* A box that is not searched for faces (another label, or an empty gallery)
\* or a person box whose crop has no face: the loop continues with the next
\* box before the face loop and the sweep.
skip_faces ==
    /\ frame >= 1
    /\ last_result' = None
    /\ last_full' = None
    /\ IF follow_probe
          THEN /\ last_is_probe' = FALSE
               /\ UNCHANGED <<last_face, last_hit>>
          ELSE /\ last_face' = NoFace
               /\ last_hit' = FALSE
               /\ UNCHANGED last_is_probe
    /\ UNCHANGED <<frame, face_cache, probe, probe_result, gallery, follow_probe>>
    /\ UNCHANGED <<thr_base, thr_size, thr_result>>
    /\ UNCHANGED <<debounceVars, historyVars, presenceVars, soundVars, streamVars, audioVars, sideVars>>

FaceStart ==
    /\ frame = 0
    /\ face_cache = <<>>
    /\ last_result = None
    /\ last_full = None
    /\ probe = NoFace
    /\ probe_result = None
    /\ last_is_probe = FALSE
    /\ last_face = NoFace
    /\ last_hit = FALSE

\* The arguments of one call of adaptive_threshold: FACE_SIM_THRESHOLD is read
\* from the environment, the size is max(box_w, box_h).
BaseThresholds == 40..70
BoxSizes == {50, 99, 100, 150, 200, 201, 300}
NoThr == -1

\* thr = adaptive_threshold(face_size, config.FACE_SIM_THRESHOLD).
call_adaptive_threshold ==
    /\ thr_result = NoThr
    /\ thr_result' = adaptive_threshold(thr_size, thr_base)
    /\ UNCHANGED <<frame, face_cache, last_result, last_full, probe, probe_result,
                   last_is_probe, gallery, follow_probe, last_face, last_hit,
                   thr_base, thr_size>>
    /\ UNCHANGED <<debounceVars, historyVars, presenceVars, soundVars, streamVars, audioVars, sideVars>>

ThresholdStart ==
    /\ thr_base = FACE_SIM_THRESHOLD
    /\ thr_size = 150
    /\ thr_result = NoThr

ThresholdInit ==
    /\ FaceStart
    /\ gallery = Gallery
    /\ follow_probe = TRUE
    /\ thr_base \in BaseThresholds
    /\ thr_size \in BoxSizes
    /\ thr_result = NoThr

FaceInit ==
    /\ FaceStart
    /\ ThresholdStart
    /\ gallery = Gallery
    /\ follow_probe = TRUE

RecognizeInit ==
    /\ FaceStart
    /\ ThresholdStart
    /\ gallery \in Galleries
    /\ follow_probe = FALSE

FaceNext ==
    \/ next_frame
    \/ \E face \in FacesOf(gallery) : match(face)
    \/ skip_faces

(***************************************************************************)
(* camera.py: one LatestFrameStream from its construction to the return of *)
(* close().  The reader tests the stop event only at the top of its loop;  *)
(* close() sets the event, waits for the reader for at most one second and *)
(* releases the capture whether the reader has ended or not.               *)
(***************************************************************************)
LateNone == {}

\* _run: "while not self._stop.is_set()".
reader_test ==
    /\ thread_pc = "test"
    /\ thread_pc' = IF stop_event THEN "done" ELSE "read"
    /\ UNCHANGED <<stop_event, cap, thread_tmp, cap_frames, latest, close_pc, late>>
    /\ UNCHANGED <<debounceVars, historyVars, presenceVars, soundVars, extVars, mqttVars, bridgeVars>>

\* _run: self._cap.read() returns and now = time.time().  The call may have
\* blocked for any time; on a capture released during the call it returns a
\* frame or a failure.
reader_read ==
    /\ thread_pc = "read"
    /\ \E ret \in {cap_frames < MaxShots, FALSE} :
          IF ret
             THEN /\ cap_frames' = cap_frames + 1
                  /\ thread_tmp' = [frame |-> cap_frames + 1, now |-> clock]
                  /\ thread_pc' = "store"
             ELSE /\ thread_pc' = "sleep"
                  /\ UNCHANGED <<cap_frames, thread_tmp>>
    /\ late' = IF cap = "released" THEN late \cup {"read"} ELSE late
    /\ UNCHANGED <<stop_event, cap, latest, close_pc>>
    /\ UNCHANGED <<debounceVars, historyVars, presenceVars, soundVars, extVars, mqttVars, bridgeVars>>

\* _run: with self._lock, the three assignments.
reader_store ==
    /\ thread_pc = "store"
    /\ latest' = StoreSlot(latest, thread_tmp.frame, thread_tmp.now)
    /\ thread_pc' = "test"
    /\ late' = IF close_pc = "returned" THEN late \cup {"update"} ELSE late
    /\ UNCHANGED <<stop_event, cap, thread_tmp, cap_frames, close_pc>>
    /\ UNCHANGED <<debounceVars, historyVars, presenceVars, soundVars, extVars, mqttVars, bridgeVars>>

\* _run: time.sleep(0.05) after a failed read.
reader_sleep ==
    /\ thread_pc = "sleep"
    /\ thread_pc' = "test"
    /\ UNCHANGED <<stop_event, cap, thread_tmp, cap_frames, latest, close_pc, late>>
    /\ UNCHANGED <<debounceVars, historyVars, presenceVars, soundVars, extVars, mqttVars, bridgeVars>>

\* close(): self._stop.set().
close_set ==
    /\ close_pc = "idle"
    /\ stop_event' = TRUE
    /\ close_pc' = "join"
    /\ UNCHANGED <<cap, thread_pc, thread_tmp, cap_frames, latest, late>>
    /\ UNCHANGED <<debounceVars, historyVars, presenceVars, soundVars, extVars, mqttVars, bridgeVars>>

\* join(timeout=1.0) has returned: the reader has ended, or the second has
\* passed with the reader still inside its read.
JoinReturns(pc) == pc = "done" \/ pc = "read"

\* close(): self._thread.join(timeout=1.0).
close_join ==
    /\ close_pc = "join"
    /\ JoinReturns(thread_pc)
    /\ close_pc' = "release"
    /\ UNCHANGED <<stop_event, cap, thread_pc, thread_tmp, cap_frames, latest, late>>
    /\ UNCHANGED <<debounceVars, historyVars, presenceVars, soundVars, extVars, mqttVars, bridgeVars>>

\* close(): self._cap.release() and the return.
close_release ==
    /\ close_pc = "release"
    /\ cap' = "released"
    /\ close_pc' = "returned"
    /\ UNCHANGED <<stop_event, thread_pc, thread_tmp, cap_frames, latest, late>>
    /\ UNCHANGED <<debounceVars, historyVars, presenceVars, soundVars, extVars, mqttVars, bridgeVars>>

\* LatestFrameStream.__init__: the capture is open and the reader started.
CloseInit ==
    /\ stop_event = FALSE
    /\ cap = "open"
    /\ thread_pc = "test"
    /\ thread_tmp = [frame |-> NoFrame, now |-> 0]
    /\ cap_frames = 0
    /\ latest = EmptySlot
    /\ close_pc = "idle"
    /\ late = LateNone

CloseNext ==
    \/ AdvanceStream
    \/ reader_test
    \/ reader_read
    \/ reader_store
    \/ reader_sleep
    \/ close_set
    \/ close_join
    \/ close_release

(***************************************************************************)
(* mqtt_client.py: the cooldown of send_face_recognized and                *)
(* send_sound_detected.  Two callers; _should_send reads now before it     *)
(* takes the lock, the test and the assignment are inside the lock.        *)
(***************************************************************************)
Senders == {"main", "audio"}
EventKeys == {<<"face", "Alice">>, <<"sound", "Door">>}
NoKey == <<"none", "none">>
MqttHorizon == MQTT_EVENT_COOLDOWN + 2

\* Variant: one cooldown for all keys.
LastTimeAnyKey(events, key) ==
    LET times == {events[k] : k \in DOMAIN events}
    IN CHOOSE t \in times : \A u \in times : u <= t

\* _last_events.get(event_key, 0).
LastTime(events, key) == events[key]

\* The locked section of _should_send.
ShouldSendLocked(events, key, now) ==
    IF now - LastTime(events, key) < MQTT_EVENT_COOLDOWN
       THEN [events |-> events, send |-> FALSE]
       ELSE [events |-> [events EXCEPT ![key] = now], send |-> TRUE]

\* on_connect and on_disconnect of the client.
mqtt_toggle ==
    /\ connected' = ~connected
    /\ UNCHANGED <<last_events, send_pc, send_key, send_now, published>>
    /\ UNCHANGED <<debounceVars, historyVars, presenceVars, soundVars, extVars, closeVars, bridgeVars>>

\* send_face_recognized(name) or send_sound_detected(sound) up to
\* now = time.time() in _should_send; a call on a disconnected client returns.
send_call(s, key) ==
    /\ send_pc[s] = "idle"
    /\ IF connected
          THEN /\ send_pc' = [send_pc EXCEPT ![s] = "called"]
               /\ send_key' = [send_key EXCEPT ![s] = key]
               /\ send_now' = [send_now EXCEPT ![s] = clock]
          ELSE UNCHANGED <<send_pc, send_key, send_now>>
    /\ UNCHANGED <<connected, last_events, published>>
    /\ UNCHANGED <<debounceVars, historyVars, presenceVars, soundVars, extVars, closeVars, bridgeVars>>

\* The publication of caller s: its key, the now its _should_send has read
\* and its timestamp = datetime.now().
Publication(s) == [key |-> send_key[s], now |-> send_now[s], at |-> clock]

\* The locked section of _should_send and, when it returns True, the
\* publication.
send_locked(s) ==
    /\ send_pc[s] = "called"
    /\ LET r == ShouldSendLocked(last_events, send_key[s], send_now[s])
       IN /\ last_events' = r.events
          /\ published' = IF r.send
                             THEN published \cup {Publication(s)}
                             ELSE published
    /\ send_pc' = [send_pc EXCEPT ![s] = "idle"]
    /\ send_key' = [send_key EXCEPT ![s] = NoKey]
    /\ send_now' = [send_now EXCEPT ![s] = 0]
    /\ UNCHANGED connected
    /\ UNCHANGED <<debounceVars, historyVars, presenceVars, soundVars, extVars, closeVars, bridgeVars>>

AdvanceMqtt == AdvanceTo(StartTime + MqttHorizon)

\* The module after init_mqtt: no event has been sent.
MqttInit ==
    /\ connected = TRUE
    /\ last_events = [k \in EventKeys |-> 0]
    /\ send_pc = [s \in Senders |-> "idle"]
    /\ send_key = [s \in Senders |-> NoKey]
    /\ send_now = [s \in Senders |-> 0]
    /\ published = {}

MqttNext ==
    \/ AdvanceMqtt
    \/ mqtt_toggle
    \/ \E s \in Senders, key \in EventKeys : send_call(s, key)
    \/ \E s \in Senders : send_locked(s)

(***************************************************************************)
(* vision_bridge.py: recognize_objects_and_faces, the opening of the       *)
(* camera and the reconnect branch of its loop.  open_camera returns None  *)
(* while the source is down.                                               *)
(***************************************************************************)
\* cap = open_camera().
open_camera(up) == IF up THEN "open" ELSE None

\* reconnect_delay = min(reconnect_delay * 2, 60).
NextDelay(delay) == IF delay * 2 < ReconnectDelayCap THEN delay * 2 ELSE ReconnectDelayCap

\* cap = open_camera() at the start of the function.
bridge_startup ==
    /\ bridge_pc = "startup"
    /\ bridge_cap' = open_camera(cam_up)
    /\ bridge_pc' = IF cam_up THEN "read" ELSE "startup_retry"
    /\ bridge_slept' = <<>>
    /\ UNCHANGED <<reconnect_delay, bridge_frame>>
    /\ UNCHANGED <<debounceVars, historyVars, presenceVars, soundVars, extVars, closeVars, mqttVars>>

\* time.sleep(5), the second open_camera() and the raise.
bridge_startup_retry ==
    /\ bridge_pc = "startup_retry"
    /\ bridge_cap' = open_camera(cam_up)
    /\ bridge_pc' = IF cam_up THEN "read" ELSE "raised"
    /\ bridge_slept' = <<5>>
    /\ UNCHANGED <<reconnect_delay, bridge_frame>>
    /\ UNCHANGED <<debounceVars, historyVars, presenceVars, soundVars, extVars, closeVars, mqttVars>>

\* ret, img = cap.read() at the top of the loop: on a capture the read gives
\* a frame, which is processed, or fails, and then the capture is released
\* and the loop sleeps; on cap = None the call raises AttributeError, which
\* nothing catches.
bridge_read ==
    /\ bridge_pc = "read"
    /\ IF bridge_cap = None
          THEN /\ bridge_pc' = "crashed"
               /\ bridge_slept' = <<>>
               /\ UNCHANGED <<bridge_cap, bridge_frame>>
          ELSE \E ret \in {cam_up /\ bridge_frame < MaxBridgeFrames, FALSE} :
                  IF ret
                     THEN /\ bridge_pc' = "process"
                          /\ bridge_slept' = <<>>
                          /\ UNCHANGED <<bridge_cap, bridge_frame>>
                     ELSE /\ bridge_cap' = "released"
                          /\ bridge_pc' = "reopen"
                          /\ bridge_slept' = <<reconnect_delay>>
                          /\ UNCHANGED bridge_frame
    /\ UNCHANGED reconnect_delay
    /\ UNCHANGED <<debounceVars, historyVars, presenceVars, soundVars, extVars, closeVars, mqttVars>>

\* frame += 1 and the rest of the iteration on the frame that was read.
bridge_process ==
    /\ bridge_pc = "process"
    /\ bridge_frame' = bridge_frame + 1
    /\ bridge_pc' = "read"
    /\ bridge_slept' = <<>>
    /\ UNCHANGED <<bridge_cap, reconnect_delay>>
    /\ UNCHANGED <<debounceVars, historyVars, presenceVars, soundVars, extVars, closeVars, mqttVars>>

\* cap = open_camera() after the sleep, the new reconnect_delay and continue.
bridge_reopen ==
    /\ bridge_pc = "reopen"
    /\ bridge_cap' = open_camera(cam_up)
    /\ reconnect_delay' = IF cam_up THEN ReconnectDelayStart ELSE NextDelay(reconnect_delay)
    /\ bridge_pc' = "read"
    /\ bridge_slept' = <<>>
    /\ UNCHANGED bridge_frame
    /\ UNCHANGED <<debounceVars, historyVars, presenceVars, soundVars, extVars, closeVars, mqttVars>>

\* recognize_objects_and_faces is called.
BridgeInit ==
    /\ bridge_cap = None
    /\ bridge_pc = "startup"
    /\ reconnect_delay = ReconnectDelayStart
    /\ bridge_frame = 0
    /\ bridge_slept = <<>>

BridgeNext ==
    \/ cam_toggle
    \/ bridge_startup
    \/ bridge_startup_retry
    \/ bridge_read
    \/ bridge_process
    \/ bridge_reopen

SideInit == CloseInit /\ MqttInit /\ BridgeInit

ExtInit == StreamInit /\ AudioInit /\ FaceInit /\ SideInit

Init == DebounceInit /\ PresenceInit /\ SoundInit /\ ExtInit

InitDebounce == Init /\ tracker_present /\ cam_up

InitPresence == Init /\ watched = PERSON /\ tracker_present /\ cam_up

InitSound == Init /\ watched = PERSON /\ cam_up

InitStream == Init /\ watched = PERSON /\ tracker_present

SpecStream == InitStream /\ [][StreamNext]_vars

InitAudio == Init /\ watched = PERSON /\ tracker_present /\ cam_up

SpecAudio == InitAudio /\ [][AudioNext]_vars

InitFace == Init /\ watched = PERSON /\ tracker_present /\ cam_up

SpecFace == InitFace /\ [][FaceNext]_vars

InitRecognize ==
    /\ DebounceInit /\ PresenceInit /\ SoundInit /\ StreamInit /\ AudioInit /\ RecognizeInit
    /\ SideInit
    /\ watched = PERSON /\ tracker_present /\ cam_up

SpecRecognize == InitRecognize /\ [][FaceNext]_vars

InitThreshold ==
    /\ DebounceInit /\ PresenceInit /\ SoundInit /\ StreamInit /\ AudioInit /\ ThresholdInit
    /\ SideInit
    /\ watched = PERSON /\ tracker_present /\ cam_up

SpecThreshold == InitThreshold /\ [][call_adaptive_threshold]_vars

SpecSound == InitSound /\ [][SoundNext]_vars

SpecPresence == InitPresence /\ [][PresenceNext]_vars

InitCallbacks ==
    /\ DebounceInit /\ PresenceStart /\ SoundInit /\ ExtInit
    /\ callbacks = "may_raise"
    /\ watched = PERSON /\ tracker_present /\ cam_up

SpecCallbacks == InitCallbacks /\ [][PresenceNext]_vars

SpecDebounce == InitDebounce /\ [][NewFrame]_vars

InitHandoff == Init /\ watched = PERSON /\ tracker_present /\ cam_up

SpecHandoff == InitHandoff /\ [][NewPersonFrame]_vars

SpecOnePerson == InitHandoff /\ [][NewOnePersonFrame]_vars

InitAbsent ==
    /\ AbsentInit /\ PresenceInit /\ SoundInit /\ ExtInit
    /\ tracker_present /\ cam_up

SpecAbsent == InitAbsent /\ [][NewFrame]_vars

InitStats ==
    /\ StatsInit /\ PresenceInit /\ SoundInit /\ ExtInit
    /\ tracker_present /\ cam_up

SpecStats == InitStats /\ [][NewOnePersonFrame]_vars

InitClose == Init /\ watched = PERSON /\ tracker_present /\ cam_up

SpecClose == InitClose /\ [][CloseNext]_vars

SpecMqtt == InitClose /\ [][MqttNext]_vars

InitBridge == Init /\ watched = PERSON /\ tracker_present

SpecBridge == InitBridge /\ [][BridgeNext]_vars

(***************************************************************************)
(* Properties of the debounce loop (SpecDebounce).                         *)
(***************************************************************************)
MinStableOf(l) == get_debounce_params(l).min_stable
MaxMissingOf(l) == get_debounce_params(l).max_missing
ALICE == NamedLabel("Alice")
PersonLabels(S) == {l \in S : base_of(l) = "person"}

\* C1 (as stated): a label is in the stable set at the end of a tick only if
\* it was in the seen set on at least minStable ticks since its tracked state
\* was last created.
C1_SeenMinStableSinceCreated ==
    watched \in current => seenSince >= MinStableOf(watched)

\* C1 (amended): a label is in the stable set at the end of a tick only if it
\* was seen on at least minStable ticks since its tracked state was created,
\* where a named label that took over the state of "person" in an identity
\* handoff also counts the ticks on which that "person" had been seen.
C1_SeenMinStableWithHandoff ==
    watched \in current => seenCredit >= MinStableOf(watched)

\* A named label that is stable on the first tick of its own state.
C1_Witness ==
    /\ watched = ALICE
    /\ ALICE \in current
    /\ seenSince = 1
    /\ seenCredit >= MinStableOf(ALICE)

\* C2 (as stated): a label leaves the stable set only after it has been absent
\* from the seen set for more than maxMissing consecutive ticks.
C2_LeavesAfterMaxMissing ==
    [][(watched \in current /\ watched \notin current')
          => absentRun' > MaxMissingOf(watched)]_vars

\* C2 (amended): a label leaves the stable set on a tick only if it has then
\* been absent from the seen set for more than floor(maxMissing / 2)
\* consecutive ticks, or it is the generic "person" on a tick in which a name
\* is recognised (the identity handoff moves its state to the named label).
C2_LeavesAfterHalfMaxMissing ==
    [][(watched \in current /\ watched \notin current')
          => \/ absentRun' > MaxMissingOf(watched) \div 2
             \/ /\ watched = PERSON
                /\ \E nm \in Names : NamedLabel(nm) \in seen']_vars

\* "person" has just left the stable set by decay, on its
\* (floor(maxMissing / 2) + 1)-th absent tick, and is still tracked.
C2_Witness ==
    /\ watched = PERSON
    /\ PERSON \in removed
    /\ PERSON \in DOMAIN tracked
    /\ PersonLabels(seen) = {}
    /\ absentRun = MaxMissingOf(PERSON) \div 2 + 1

\* C3: a label that is in the seen set at debounce time on minStable
\* consecutive ticks is in the stable set at the end of the last of them.
C3_StableAfterMinStableRun ==
    seenRun >= MinStableOf(watched) => watched \in current

\* C4: if "person" is tracked with stableScore = minStable and the frame's
\* person is recognised as Alice, then person(Alice) is in the stable set at
\* the end of that tick and "person" is no longer tracked.
C4_HandoffImmediate ==
    [][(/\ PERSON \in DOMAIN tracked
        /\ tracked[PERSON].stable = MinStableOf(PERSON)
        /\ PersonLabels(seen') = {ALICE})
          => (ALICE \in current' /\ PERSON \notin DOMAIN tracked')]_vars

\* The tick of a handoff from a stable "person": person(Alice) is reported as
\* appeared on the first tick of its own state, "person" as gone.
C4_Witness ==
    /\ watched = ALICE
    /\ seenSince = 1
    /\ ALICE \in added
    /\ PERSON \in removed
    /\ PERSON \notin DOMAIN tracked

\* C5: on every tick the labels reported as added are exactly those stable now
\* and not stable at the previous tick, the labels reported as removed exactly
\* those stable at the previous tick and not now (so nothing is reported while
\* the stable set is unchanged).
C5_DiffReportedOnce ==
    [][added' = current' \ current /\ removed' = current \ current']_vars

\* A tick that reported nothing right after a tick that changed the stable
\* set is told apart from one that reports: here a label is reported as gone
\* while another stays stable.
C5_Witness ==
    /\ removed # {}
    /\ added = {}
    /\ current # {}

(***************************************************************************)
(* Properties of PresenceTracker (SpecPresence).                           *)
(***************************************************************************)
DoorStep == door_pc = "lock" /\ door_pc' = "idle"
FaceStep == face_pc = "lock" /\ face_pc' = "idle"

PendingFace(faces, nm) ==
    IF \E i \in 1..Len(faces) : faces[i].name = nm
        THEN faces[CHOOSE i \in 1..Len(faces) : faces[i].name = nm]
        ELSE NoEvent

Within(later, earlier) == 0 <= later - earlier /\ later - earlier <= PRESENCE_TIME_WINDOW

\* C6: starting with nothing pending, on_door_sound(door) stores the door
\* event and emits nothing, and on_face_recognized("Alice") following it within
\* the window emits exactly arrived("Alice") and leaves nothing pending; in the
\* reverse order the face call stores the face event and emits nothing, and
\* the door sound following it within the window emits exactly left("Alice")
\* and leaves nothing pending.
C6_DoorFaceCorrelation ==
    [][/\ (DoorStep /\ last_door_event = NoEvent /\ last_face_events = <<>>)
            => /\ last_call'.emits = <<>>
               /\ last_door_event' = Event(door_now, None, door_arg)
               /\ last_face_events' = <<>>
       /\ (/\ FaceStep /\ face_arg = "Alice"
           /\ last_face_events = <<>>
           /\ last_door_event # NoEvent
           /\ Within(face_now, last_door_event.timestamp))
            => /\ last_call'.emits =
                      <<Emission("arrived", "Alice", last_door_event.timestamp, face_now)>>
               /\ last_door_event' = NoEvent
               /\ last_face_events' = <<>>
       /\ (/\ FaceStep /\ face_arg = "Alice"
           /\ last_door_event = NoEvent /\ last_face_events = <<>>)
            => /\ last_call'.emits = <<>>
               /\ last_face_events' = <<Event(face_now, "Alice", None)>>
               /\ last_door_event' = NoEvent
       /\ (/\ DoorStep
           /\ last_door_event = NoEvent
           /\ Len(last_face_events) = 1
           /\ last_face_events[1].name = "Alice"
           /\ Within(door_now, last_face_events[1].timestamp))
            => /\ last_call'.emits =
                      <<Emission("left", "Alice", door_now, last_face_events[1].timestamp)>>
               /\ last_door_event' = NoEvent
               /\ last_face_events' = <<>>]_vars

\* A face call that followed a door sound within the window has emitted
\* arrived("Alice") and nothing is pending.
C6_Witness ==
    /\ last_call.kind = "face"
    /\ Len(last_call.emits) = 1
    /\ last_call.emits[1].kind = "arrived"
    /\ last_call.emits[1].name = "Alice"
    /\ Within(last_call.emits[1].face_ts, last_call.emits[1].door_ts)
    /\ last_door_event = NoEvent
    /\ last_face_events = <<>>

\* C7: on_door_sound emits only left(name) for a face event that is pending and
\* otherwise replaces the pending door event by its own; on_face_recognized
\* emits only arrived(name) against a pending door event and otherwise replaces
\* the pending face event of that name by its own.  Events of the same kind
\* never produce an emission.
C7_NoSameKindCorrelation ==
    [][/\ DoorStep =>
            IF last_call'.emits # <<>>
                THEN /\ Len(last_call'.emits) = 1
                     /\ last_call'.emits[1].kind = "left"
                     /\ PendingFace(last_face_events, last_call'.emits[1].name) # NoEvent
                     /\ last_call'.emits[1].face_ts =
                            PendingFace(last_face_events, last_call'.emits[1].name).timestamp
                     /\ last_door_event' = last_door_event
                ELSE /\ last_door_event' = Event(door_now, None, door_arg)
                     /\ last_face_events' = last_face_events
       /\ FaceStep =>
            IF last_call'.emits # <<>>
                THEN /\ last_door_event # NoEvent
                     /\ last_call'.emits =
                            <<Emission("arrived", face_arg, last_door_event.timestamp, face_now)>>
                     /\ last_face_events' = last_face_events
                ELSE /\ last_door_event' = last_door_event
                     /\ \A nm \in FaceNames :
                            PendingFace(last_face_events', nm) =
                                IF nm = face_arg THEN Event(face_now, nm, None)
                                ELSE PendingFace(last_face_events, nm)]_vars

\* A door sound more than the window after a pending door sound has emitted
\* nothing and has replaced it.
C7_Witness ==
    /\ last_call.kind = "door"
    /\ last_call.emits = <<>>
    /\ last_call.displaced # NoEvent
    /\ last_door_event # NoEvent
    /\ last_door_event.timestamp - last_call.displaced.timestamp > PRESENCE_TIME_WINDOW

\* C8: no arrived or left event is emitted for a door event and a face event
\* whose timestamps are more than the correlation window apart.
C8_EmittedWithinWindow ==
    \A i \in 1..Len(last_call.emits) :
        /\ last_call.emits[i].face_ts - last_call.emits[i].door_ts <= PRESENCE_TIME_WINDOW
        /\ last_call.emits[i].door_ts - last_call.emits[i].face_ts <= PRESENCE_TIME_WINDOW

(***************************************************************************)
(* Properties of the sound gate (SpecSound).                               *)
(***************************************************************************)
\* C9: the same sound label is never emitted twice within min_interval_sec of
\* that label's own last emission.
C9_SameLabelCooldown ==
    \A i, j \in 1..Len(sound_log) :
        (i < j /\ sound_log[i].label = sound_log[j].label)
            => sound_log[j].ts - sound_log[i].ts > min_interval_sec

\* C10: an observation that reaches the gate (a classified sound while
\* detection is enabled) and differs from the most recently emitted label is
\* emitted in that call, whatever the time since the last emission.
C10_DifferentLabelEmitted ==
    [][(/\ chunks' = chunks + 1
        /\ enabled
        /\ detected_sound' # None
        /\ detected_sound' # last_detected_sound)
          => /\ sound_log' = Append(sound_log, [label |-> detected_sound', ts |-> clock])
             /\ last_detected_sound' = detected_sound'
             /\ last_event_ts' = clock]_vars

\* Two different labels emitted one after the other within min_interval_sec.
C10_Witness ==
    /\ Len(sound_log) >= 2
    /\ sound_log[Len(sound_log)].label # sound_log[Len(sound_log) - 1].label
    /\ sound_log[Len(sound_log)].ts - sound_log[Len(sound_log) - 1].ts <= min_interval_sec

(***************************************************************************)
(* Properties of the frame stream and the main loop's polling (SpecStream).*)
(***************************************************************************)
InSeq(x, q) == \E i \in 1..Len(q) : q[i] = x

\* C11: get_latest returns exactly the (frame, frame_id, last_ok_ts) stored by
\* the most recent successful read, or (None, 0, 0.0) before the first one:
\* the slot always holds the three values of one read, a poll returns the
\* slot as it is, and a failed read changes none of the three fields.
C11_LatestUntorn ==
    [][/\ slot' = last_read'
       /\ polled' # polled => polled' = last_read
       /\ (reader_pc = "read" /\ reader_pc' = "sleep") => slot' = slot]_vars

\* The loop polled the second frame of a stream without having polled the
\* first, and a read has failed since.
C11_Witness ==
    /\ polled.frame_id = 2
    /\ polled.last_ok_ts > 0
    /\ processed = <<polled.frame>>
    /\ reader_pc = "sleep"
    /\ slot = polled

\* C12: the frame_id of a stream grows by exactly 1 with every stored read,
\* no frame is processed twice, and a polled frame that was never processed
\* is processed by the iteration that polled it, on a reopened stream too.
C12_EachFrameOnce ==
    [][/\ (stream = "open" /\ stream' = "open" /\ slot' # slot)
             => slot'.frame_id = slot.frame_id + 1
       /\ \A i, j \in 1..Len(processed') : i # j => processed'[i] # processed'[j]
       /\ (polled' # polled /\ polled'.frame # NoFrame /\ ~InSeq(polled'.frame, processed))
             => processed' = Append(processed, polled'.frame)]_vars

\* C13: the main loop never raises, whether the source fails at startup or
\* later.
C13_NeverFatal == main_pc # "raised"

(***************************************************************************)
(* Properties of the audio thread (SpecAudio).                             *)
(***************************************************************************)
\* C14: while stop() has not been called, audio ingestion is never stopped
\* for good: a thread that has processed chunks does not terminate on the
\* exit of ffmpeg or on an exception in the processing of a chunk.
C14_IngestionNeverStops == (audio_pc = "done" /\ ingested > 0) => stop_flag

\* C15: once stop() has returned and the audio thread has terminated, no
\* ffmpeg process is left running, whenever stop() came.
C15_StopLeavesNoFfmpeg == (stop_pc = "returned" /\ audio_pc = "done") => ffmpeg # "running"

\* C16: a failure inside a sink call made for a chunk does not end the audio
\* loop: the thread goes on to its next iteration.
C16_SinkFailureContained ==
    [][(audio_pc = "read" /\ ffmpeg = "running" /\ sink_failure' # None)
          => audio_pc' = "loop"]_vars

(***************************************************************************)
(* Properties of the face matching (SpecFace).                             *)
(***************************************************************************)
\* C17: matching a face again (the same embedding with the same box size,
\* the gallery unchanged) gives the result of its first match, whatever was
\* matched in between and whatever the cache holds.
C17_MatchIdempotent == last_is_probe => last_result = probe_result

\* C18: the name recognised for a face with the cache is the name the full
\* comparison with the gallery gives for it (or none where it gives none).
C18_CacheIsOptimization == last_result = last_full

(***************************************************************************)
(* Properties of the identity handoff over a detection episode             *)
(* (SpecOnePerson, SpecHandoff).                                           *)
(***************************************************************************)
NamedLabels(S) == {l \in S : Len(l) = 2}

\* C19: in a scene with one person, once the person is tracked under a named
\* label, a tick in which the person box is detected without a matched face
\* creates no state for generic "person", and "person" is never in the stable
\* set together with a named label.
C19_NamedForEpisode ==
    [][/\ (NamedLabels(DOMAIN tracked) # {} /\ PERSON \notin DOMAIN tracked /\ seen' = {PERSON})
             => PERSON \notin DOMAIN tracked'
       /\ ~(PERSON \in current' /\ NamedLabels(current') # {})]_vars

\* C20: in a tick that starts with "person" tracked and recognises names,
\* every named label of the frame takes over the state of "person": it ends
\* the tick with the stable score of a seen label whose score before the
\* debounce step was the larger of its own and that of "person" (that of
\* "person" if it had no state), and with missing streak 0.
C20_TransplantToEveryName ==
    [][(PERSON \in DOMAIN tracked /\ NamedLabels(seen') # {})
          => \A l \in NamedLabels(seen') :
                LET base_stable == tracked[PERSON].stable
                    stable1 == IF l \in DOMAIN tracked
                                  THEN Max(tracked[l].stable, base_stable)
                                  ELSE base_stable
                IN /\ l \in DOMAIN tracked'
                   /\ tracked'[l].last = 0
                   /\ tracked'[l].stable = Min(stable1 + 1, MIN_STABLE)]_vars

(***************************************************************************)
(* Atomicity of the correlator's check-then-clear-or-set (SpecPresence).   *)
(***************************************************************************)
Near(a, b) == a - b <= PRESENCE_TIME_WINDOW /\ b - a <= PRESENCE_TIME_WINDOW

\* C21: when a door call and a face call overlap (each has read its time, the
\* two times within the window of each other, nothing pending before), the call
\* that takes the lock second finds the event the first has stored and emits
\* exactly one arrived or left, leaving nothing pending; a door event and a
\* face event within the window of each other are never both left pending.
C21_CheckThenSetAtomic ==
    [][/\ (/\ FaceStep
           /\ last_face_events = <<>>
           /\ last_door_event # NoEvent
           /\ Near(face_now, last_door_event.timestamp))
            => /\ last_call'.emits =
                      <<Emission("arrived", face_arg, last_door_event.timestamp, face_now)>>
               /\ last_door_event' = NoEvent
               /\ last_face_events' = <<>>
       /\ (/\ DoorStep
           /\ last_door_event = NoEvent
           /\ Len(last_face_events) = 1
           /\ Near(door_now, last_face_events[1].timestamp))
            => /\ last_call'.emits =
                      <<Emission("left", last_face_events[1].name, door_now,
                                 last_face_events[1].timestamp)>>
               /\ last_door_event' = NoEvent
               /\ last_face_events' = <<>>
       /\ last_door_event' # NoEvent
            => \A i \in 1..Len(last_face_events') :
                  ~Near(last_door_event'.timestamp, last_face_events'[i].timestamp)]_vars

\* The face call read its time first, the door call stored its event first,
\* and the face call then emitted arrived against it.
C21_Witness ==
    /\ last_call.kind = "face"
    /\ Len(last_call.emits) = 1
    /\ last_call.emits[1].kind = "arrived"
    /\ last_call.emits[1].face_ts < last_call.emits[1].door_ts
    /\ Near(last_call.emits[1].face_ts, last_call.emits[1].door_ts)
    /\ last_door_event = NoEvent
    /\ last_face_events = <<>>

(***************************************************************************)
(* Properties of the reconnect handling of the main loop (SpecStream).     *)
(***************************************************************************)
MainStep == main_step' # main_step
Reopened == MainStep /\ stream = None /\ stream' = "open"

\* C22: when the no-new-frame count reaches STREAM_RECONNECT_ATTEMPTS the
\* stream is closed and re-open attempts begin; there are at most 3 of them
\* in a cycle, the first success ends it, the k-th failed attempt is followed
\* by a sleep of 5 s x k, the third also by a sleep of 10 s, and every further
\* attempt to re-open the stream is again an attempt of such a cycle.
C22_CycleRepeats ==
    [][MainStep =>
          /\ (main_pc = "loop" /\ stream = "open"
                 /\ no_frame_count' >= STREAM_RECONNECT_ATTEMPTS)
                => (stream' = None /\ main_pc' = "reconnect" /\ attempt' = 0)
          /\ main_pc = "reconnect"
                => /\ attempt < ReconnectTries
                   /\ stream' = "open" => main_pc' = "loop"
                   /\ stream' = None => slept'[1] = 5000 * (attempt + 1)
                   /\ (stream' = None /\ attempt + 1 = ReconnectTries)
                         => slept'[Len(slept')] = 10000
          /\ (stream = None /\ main_pc \notin {"startup", "startup_retry"})
                => main_pc = "reconnect"]_vars

\* C23: every successful re-open of the stream in the main loop leaves
\* no_frame_count at 0 and last_stream_frame_id at -1.
C23_ReopenResetsBaseline ==
    [][(Reopened /\ main_pc \notin {"startup", "startup_retry"})
          => (no_frame_count' = 0 /\ last_stream_frame_id' = -1)]_vars

\* C22 as the loop does it: the cycle is as above up to the sleep of 10 s; it
\* ends with no_frame_count at 0 and no stream, and from then on every step of
\* the loop is a single re-open attempt after a sleep of 5 s, until one
\* succeeds.
C22_CycleThenSingleAttempts ==
    [][MainStep =>
          /\ (main_pc = "loop" /\ stream = "open"
                 /\ no_frame_count' >= STREAM_RECONNECT_ATTEMPTS)
                => (stream' = None /\ main_pc' = "reconnect" /\ attempt' = 0)
          /\ main_pc = "reconnect"
                => /\ attempt < ReconnectTries
                   /\ stream' = "open" => main_pc' = "loop"
                   /\ stream' = None => slept'[1] = 5000 * (attempt + 1)
                   /\ (stream' = None /\ attempt + 1 < ReconnectTries)
                         => (main_pc' = "reconnect" /\ attempt' = attempt + 1
                             /\ Len(slept') = 1)
                   /\ (stream' = None /\ attempt + 1 = ReconnectTries)
                         => (slept' = <<5000 * ReconnectTries, 10000>>
                             /\ main_pc' = "loop" /\ no_frame_count' = 0)
          /\ (main_pc = "loop" /\ stream = None)
                => (slept' = <<5000>> /\ main_pc' = "loop" /\ attempt' = attempt)]_vars

\* After a cycle of three failed attempts a single attempt at the top of the
\* loop has failed as well.
C22_Witness ==
    /\ main_pc = "loop"
    /\ stream = None
    /\ slept = <<5000>>
    /\ no_frame_count = 0

(***************************************************************************)
(* Staleness detection of a poll (SpecStream).                             *)
(***************************************************************************)
PollStep == MainStep /\ main_pc = "loop" /\ stream = "open"
Counted == no_frame_count' = no_frame_count + 1
NotAdvanced == slot.frame = NoFrame \/ slot.frame_id = last_stream_frame_id
StaleByTime == clock - slot.last_ok_ts > STREAM_STALE_SEC

\* C24: a poll is counted towards the reconnect threshold when the last
\* successful read is older than the stale threshold or when the frame_id has
\* not advanced; either alone suffices.
C24_CountedOnEither ==
    [][PollStep => ((StaleByTime \/ NotAdvanced) => Counted)]_vars

\* C24 as the loop does it: a poll is counted exactly when it brings no new
\* frame (no frame yet, or the frame_id of the last processed frame) and the
\* stream has never delivered a frame or its last successful read is older
\* than the stale threshold.
C24_CountedOnBoth ==
    [][PollStep =>
          (Counted <=> (NotAdvanced /\ (slot.last_ok_ts = 0 \/ StaleByTime)))]_vars

\* A poll found the frame it had already processed, read longer ago than the
\* stale threshold, and was counted.
C24_Witness ==
    /\ main_pc = "loop"
    /\ stream = "open"
    /\ no_frame_count = 1
    /\ polled.frame # NoFrame
    /\ polled.frame_id = last_stream_frame_id
    /\ clock - polled.last_ok_ts > STREAM_STALE_SEC
    /\ slept = <<50>>

(***************************************************************************)
(* Properties of the acceptance rule and the face cache (SpecRecognize).   *)
(***************************************************************************)
FaceTypeOK ==
    /\ gallery \in Galleries
    /\ frame \in 0..MaxFrame
    /\ last_result \in {None} \cup FaceNames


\* The similarities of a face as the claims speak of them.
Tops(face) == {i \in DOMAIN face.sims : \A j \in DOMAIN face.sims : face.sims[i] >= face.sims[j]}
BestSimOf(face) == face.sims[CHOOSE i \in Tops(face) : TRUE]
SecondSimOf(face) ==
    LET others == DOMAIN face.sims \ Tops(face)
    IN IF Len(face.sims) = 1 THEN 0
       ELSE IF Cardinality(Tops(face)) > 1 THEN BestSimOf(face)
       ELSE face.sims[CHOOSE i \in others : \A j \in others : face.sims[i] >= face.sims[j]]
ThrOf(face) == adaptive_threshold(face.size, FACE_SIM_THRESHOLD)
HighOf(face) == BestSimOf(face) >= ThrOf(face) + 10
AcceptedOf(face) ==
    /\ BestSimOf(face) >= ThrOf(face)
    /\ BestSimOf(face) - SecondSimOf(face) >= MIN_SIM_DIFF \/ HighOf(face)

\* C25: a face compared with the whole gallery gets a name exactly when
\* best_sim >= thr and (best_sim - second_sim >= MIN_SIM_DIFF or
\* best_sim >= thr + 0.1), with thr the adaptive threshold of its box and
\* second_sim 0 for a gallery of one identity, and the name is that of a
\* best-ranked identity; with an empty gallery no face ever gets a name.
C25_AcceptanceRule ==
    /\ Len(gallery) = 0 => (last_result = None /\ face_cache = <<>>)
    /\ (last_face # NoFace /\ ~last_hit)
          => /\ AcceptedOf(last_face) <=> last_result # None
             /\ AcceptedOf(last_face) => last_result \in {gallery[i] : i \in Tops(last_face)}

\* A face was named by the full comparison although the runner-up is closer
\* than MIN_SIM_DIFF: its best similarity is at least thr + 0.1.
C25_Witness ==
    /\ last_face # NoFace
    /\ ~last_hit
    /\ Len(gallery) = 2
    /\ last_result # None
    /\ BestSimOf(last_face) - SecondSimOf(last_face) < MIN_SIM_DIFF

FaceMatched == frame' = frame /\ last_face' # NoFace
Fresh(key) ==
    key \in DOMAIN face_cache /\ frame - face_cache[key].frame < FACE_CACHE_VALIDITY_FRAMES

\* C26: the cache answers for a face only from an entry with
\* frame - entry.frame < FACE_CACHE_VALIDITY_FRAMES; with no entry or an
\* expired one the face gets the result of the full comparison; and an entry
\* is written only by a full comparison that accepts with
\* best_sim >= thr + 0.1.
C26_CacheUseAndWrite ==
    [][FaceMatched =>
          LET key == face_hash(last_face')
          IN /\ last_hit' => (Fresh(key) /\ last_result' = face_cache[key].name)
             /\ ~Fresh(key)
                   => /\ ~last_hit'
                      /\ last_result' # None <=> AcceptedOf(last_face')
             /\ \A k \in DOMAIN face_cache' :
                   (k \notin DOMAIN face_cache \/ face_cache'[k] # face_cache[k])
                      => /\ k = key
                         /\ ~last_hit'
                         /\ AcceptedOf(last_face') /\ HighOf(last_face')
                         /\ face_cache'[k] = [frame |-> frame, name |-> last_result',
                                              sim |-> BestSimOf(last_face')]]_vars

\* The cache answered for a face from an entry written in the frame before.
C26_Witness ==
    /\ last_hit
    /\ last_face # NoFace
    /\ face_hash(last_face) \in DOMAIN face_cache
    /\ frame - face_cache[face_hash(last_face)].frame = 1

\* C27: when a frame whose number is a multiple of the sweep period has been
\* processed (the loop goes on to the next frame), the cache holds no entry
\* with frame - entry.frame >= FACE_CACHE_VALIDITY_FRAMES.
C27_SweptAtMultiples ==
    [][(frame' = frame + 1 /\ frame >= 1 /\ frame % CacheSweepEvery = 0)
          => \A k \in DOMAIN face_cache :
                frame - face_cache[k].frame < FACE_CACHE_VALIDITY_FRAMES]_vars


(***************************************************************************)
(* The adaptive threshold (SpecThreshold).                                 *)
(***************************************************************************)
\* C28: for every base threshold the adaptive threshold of a face smaller
\* than 100 px is at most the base, that of a face larger than 200 px is at
\* least the base, that of a size from 100 to 200 is the base, and the
\* result always lies in the band from 0.50 to 0.60.
C28_AdaptiveInBand ==
    thr_result # NoThr
       => /\ thr_size < 100 => thr_result <= thr_base
          /\ thr_size > 200 => thr_result >= thr_base
          /\ (thr_size >= 100 /\ thr_size <= 200) => thr_result = thr_base
          /\ thr_result >= 50 /\ thr_result <= 60


(***************************************************************************)
(* The debounce step of an absent label (SpecAbsent).                      *)
(***************************************************************************)
TrackedNames == {NamedLabel(nm) : nm \in Names}

\* A handoff of this tick took the state of "person" before the debounce
\* block ran.
HandoffTick == PERSON \in DOMAIN tracked /\ seen' \cap TrackedNames # {}

\* The labels the debounce block finds tracked and not seen.
AbsentLabels ==
    {l \in DOMAIN tracked : l \notin seen' /\ ~(l = PERSON /\ HandoffTick)}

\* The rule of an absent tick for label l.
AbsentRule(l) ==
    LET missing == tracked[l].last + 1
        max_missing == get_debounce_params(l).max_missing
    IN IF missing > max_missing
          THEN l \notin DOMAIN tracked'
          ELSE /\ l \in DOMAIN tracked'
               /\ tracked'[l].last = missing
               /\ tracked'[l].stable =
                     IF missing <= max_missing \div 2 THEN tracked[l].stable
                     ELSE Max(0, tracked[l].stable - 1)

ChunkStep == chunks' = chunks + 1
ReachesGate == detected_sound' # None /\ enabled
Passes ==
    clock - last_event_ts > min_interval_sec \/ last_detected_sound # detected_sound'

\* C30: an observation the gate suppresses is dropped: it changes neither
\* _last_event_ts nor _last_detected_sound, emits nothing and is never emitted
\* later (every emission is that of the chunk just classified); an observation
\* the gate accepts is emitted exactly once.
C30_GateFrame ==
    [][/\ (ChunkStep /\ ReachesGate /\ ~Passes)
             => UNCHANGED <<last_event_ts, last_detected_sound, sound_log, door_pc, door_arg>>
       /\ (ChunkStep /\ ReachesGate /\ Passes)
             => sound_log' = Append(sound_log, [label |-> detected_sound', ts |-> clock])
       /\ sound_log' # sound_log
             => /\ ChunkStep /\ ReachesGate /\ Passes
                /\ Len(sound_log') = Len(sound_log) + 1]_vars

\* An observation reached the gate after the last emission, with the emitted
\* label and within the interval, and was suppressed.
C30_Witness ==
    /\ enabled
    /\ detected_sound # None
    /\ detected_sound = last_detected_sound
    /\ gate_now > last_event_ts
    /\ gate_now - last_event_ts <= min_interval_sec
    /\ Len(sound_log) = 1


(***************************************************************************)
(* The sinks of the main loop and the stable-set diff (SpecStats).         *)
(***************************************************************************)
\* C31: a statistics record about a person is written only on a tick on which
\* the stable set changed: record_person_seen is not called on a frame whose
\* stable set equals the one reported before.
C31_RecordsOnlyOnDiff == recorded # {} => (added # {} \/ removed # {})


(***************************************************************************)
(* The tick as a function of the frame's detections (SpecHandoff).         *)
(***************************************************************************)
\* tracked after a tick on boxes, from the current tracked.
TrackedAfter(boxes) ==
    LET st == ProcessBoxes([seen |-> {}, tracked |-> tracked], boxes)
    IN CreateMissing(DebounceLoop(st.tracked, st.seen), st.seen)

Detections(boxes) == {boxes[i] : i \in DOMAIN boxes}

\* C32: the tracked state and the stable set after a tick depend only on the
\* detections of the frame, not on the order of its boxes: two frames with the
\* same boxes in another order lead to the same tracked state.
C32_BoxOrderIrrelevant ==
    \A f, g \in PersonFrames :
        (Len(f) = Len(g) /\ Detections(f) = Detections(g))
            => /\ TrackedAfter(f) = TrackedAfter(g)
               /\ StableSet(TrackedAfter(f)) = StableSet(TrackedAfter(g))


(***************************************************************************)
(* Garbage collection of the pending events (SpecPresence).                *)
(***************************************************************************)
CleanupStep == cleanup_pc = "lock" /\ cleanup_pc' = "idle"

\* The age of an event for the running cleanup_stale: against the now it read.
Age(ev) == cleanup_now - ev.timestamp
StaleAge == 2 * PRESENCE_TIME_WINDOW

\* C33: cleanup_stale removes exactly the pending events older than
\* 2 x time_window: afterwards no pending door or face event is older than
\* that, and every pending event of age <= 2 x time_window is still pending,
\* unchanged.
C33_CleanupExact ==
    [][CleanupStep =>
          /\ \A i \in 1..Len(last_face_events') : Age(last_face_events'[i]) <= StaleAge
          /\ last_door_event' # NoEvent => Age(last_door_event') <= StaleAge
          /\ \A i \in 1..Len(last_face_events) :
                InSeq(last_face_events[i], last_face_events')
                    <=> Age(last_face_events[i]) <= StaleAge
          /\ \A j \in 1..Len(last_face_events') :
                InSeq(last_face_events'[j], last_face_events)
          /\ last_door_event' =
                IF last_door_event # NoEvent /\ Age(last_door_event) <= StaleAge
                    THEN last_door_event ELSE NoEvent]_vars

\* The last call stored its door event, no call followed, and the event is
\* gone: cleanup_stale has removed it.
C33_Witness ==
    /\ last_call.kind = "door"
    /\ last_call.emits = <<>>
    /\ last_door_event = NoEvent
    /\ door_pc = "idle"
    /\ cleanup_pc = "idle"


(***************************************************************************)
(* The ranges of the debounce state (SpecDebounce).                        *)
(***************************************************************************)
\* C34: after every tick every tracked label, one created by the identity
\* handoff included, has 0 <= stableScore <= minStable and
\* 0 <= missingStreak <= maxMissing of the profile of its base name, and every
\* label of the stable set has stableScore exactly minStable.
C34_DebounceRanges ==
    /\ \A l \in DOMAIN tracked :
          LET min_stable == IF l[1] \in IMPORTANT_OBJECTS THEN MIN_STABLE ELSE MIN_STABLE_OTHER
              max_missing == IF l[1] \in IMPORTANT_OBJECTS THEN MAX_MISSING ELSE MAX_MISSING_OTHER
          IN /\ 0 <= tracked[l].stable /\ tracked[l].stable <= min_stable
             /\ 0 <= tracked[l].last /\ tracked[l].last <= max_missing
             /\ l \in current => tracked[l].stable = min_stable
    /\ current \subseteq DOMAIN tracked

\* A label has been absent for maxMissing ticks and its stableScore has
\* decayed to 0: both ranges are met at their ends.
C34_Witness ==
    \E l \in DOMAIN tracked :
        /\ tracked[l].last = get_debounce_params(l).max_missing
        /\ tracked[l].stable = 0


(***************************************************************************)
(* Pending events and their consumption (SpecPresence).                    *)
(***************************************************************************)
NoPendingPair(door, faces) ==
    door = NoEvent \/ \A i \in 1..Len(faces) : ~Near(door.timestamp, faces[i].timestamp)

\* C35: a door event and a face event whose timestamps are within time_window
\* of each other are never both pending; the call that processes the later of
\* the two emits an arrived or left event instead of storing it.
C35_NoMissedCorrelation ==
    [][/\ NoPendingPair(last_door_event', last_face_events')
       /\ (DoorStep /\ \E i \in 1..Len(last_face_events) :
                          Near(door_now, last_face_events[i].timestamp))
             => (Len(last_call'.emits) = 1 /\ last_call'.emits[1].kind = "left")
       /\ (FaceStep /\ last_door_event # NoEvent
                    /\ Near(face_now, last_door_event.timestamp))
             => (Len(last_call'.emits) = 1 /\ last_call'.emits[1].kind = "arrived")]_vars

\* A face call found the pending door event too old and stored its face:
\* both kinds are pending, more than the window apart.
C35_Witness ==
    /\ last_call.kind = "face"
    /\ last_call.emits = <<>>
    /\ last_door_event # NoEvent
    /\ Len(last_face_events) = 1
    /\ last_face_events[1].timestamp - last_door_event.timestamp > PRESENCE_TIME_WINDOW


\* C36: a call emits at most one event; the door event of an arrived and the
\* face event of a left are cleared by the emitting call, so that neither
\* contributes to a second event, and the signal that triggered the emission
\* is not stored as pending, also when several names have a recent pending
\* face.
C36_ConsumedOnce ==
    [][/\ (DoorStep \/ FaceStep) => Len(last_call'.emits) <= 1
       /\ (FaceStep /\ last_call'.emits # <<>>)
             => /\ last_call'.emits[1].door_ts = last_door_event.timestamp
                /\ last_door_event' = NoEvent
                /\ last_face_events' = last_face_events
       /\ (DoorStep /\ last_call'.emits # <<>>)
             => /\ \E i \in 1..Len(last_face_events) :
                      /\ last_call'.emits[1].name = last_face_events[i].name
                      /\ last_call'.emits[1].face_ts = last_face_events[i].timestamp
                      /\ last_face_events' = RemoveAt(last_face_events, i)
                /\ last_door_event' = last_door_event]_vars

\* A door sound found the faces of two names pending, both recent: it emitted
\* one left and the other face is still pending.
C36_Witness ==
    /\ last_call.kind = "door"
    /\ Len(last_call.emits) = 1
    /\ Len(last_face_events) = 1
    /\ last_face_events[1].name # last_call.emits[1].name
    /\ Near(last_call.emits[1].door_ts, last_face_events[1].timestamp)


(***************************************************************************)
(* Callbacks that raise (SpecCallbacks).                                   *)
(***************************************************************************)
\* C37: a pending door or face event triggers at most one callback, also when
\* the callback raises: a call that has invoked a callback returns with the
\* lock released and the matched pending event cleared.
C37_ClearedAlthoughRaised ==
    [][/\ (DoorStep /\ last_call'.emits # <<>>)
             => ~\E i \in 1..Len(last_face_events') :
                    /\ last_face_events'[i].name = last_call'.emits[1].name
                    /\ last_face_events'[i].timestamp = last_call'.emits[1].face_ts
       /\ (FaceStep /\ last_call'.emits # <<>>) => last_door_event' = NoEvent]_vars


(***************************************************************************)
(* Properties of LatestFrameStream.close (SpecClose).                      *)
(***************************************************************************)
\* C38: after close() has returned the reader thread has stopped: it makes
\* no further update to the (frame, frame_id, last_ok_ts) slot and finishes
\* no read on the released capture, also when it was inside a read at the
\* time close() was called.
C38_ReaderStoppedAfterClose ==
    close_pc = "returned" => (thread_pc = "done" /\ late = LateNone)


(***************************************************************************)
(* Properties of the MQTT cooldown (SpecMqtt).                             *)
(***************************************************************************)
Gap(t, u) == IF t >= u THEN t - u ELSE u - t

\* A call of caller s passes the lock with the cooldown of its own key over.
OwnKeyFree(s) ==
    /\ send_pc[s] = "called"
    /\ send_pc'[s] = "idle"
    /\ send_now[s] - last_events[send_key[s]] >= MQTT_EVENT_COOLDOWN

\* A call is never suppressed by the cooldown of a different key.
KeysIndependent == \A s \in Senders : OwnKeyFree(s) => Publication(s) \in published'

C40_ReopenRetriesWithBackoff ==
    [][/\ (bridge_pc = "read" /\ bridge_pc' = "reopen")
             => (bridge_cap' = "released" /\ bridge_slept' = <<reconnect_delay>>)
       /\ (bridge_pc = "reopen" /\ bridge_cap' = None)
             => reconnect_delay' = NextDelay(reconnect_delay)
       /\ (bridge_pc = "reopen" /\ bridge_cap' = "open")
             => reconnect_delay' = ReconnectDelayStart
       /\ bridge_pc' # "crashed"]_vars
====
